---------------------------- MODULE Spec2Model ----------------------------
(***************************************************************************)
(* Tic-tac-toe with three automated opponents (random, MCTS, minimax with  *)
(* alpha-beta pruning).  The repository holds two builds of the program:   *)
(* src/TicTacToe.cpp (difficulties E/M/H, shuffled MCTS expansion order)   *)
(* and src/unnamed/part_001 (difficulties R/H/I, random selector).  The    *)
(* variable `program` says which build runs.                               *)
(***************************************************************************)
EXTENDS Integers, Sequences, FiniteSets, TLC

VARIABLES
    program,        \* which build: "TicTacToe" or "part_001"
    pc,             \* position of the running program / of the called search
    board,          \* char board[3][3], the live board
    playerMoves,    \* vector<pair<int,int>> playerMoves
    computerMoves,  \* vector<pair<int,int>> computerMoves
    chosenMode,     \* main: chosenMode
    aiChoice,       \* main: aiChoice
    currentPlayer,  \* main: currentPlayer
    winner,         \* main: winner
    start,          \* the board as it was handed to the search being run
    bestMove,       \* the move a search returned (bestMove / randomMove)
    bestScore,      \* minimaxMove: bestScore; minimax: the returned value
    side,           \* isMaximizing of a direct minimax call
    tree,           \* runMCTS: the nodes, root first (node id = index)
    iterations,     \* runMCTS: the iterations argument
    iter,           \* runMCTS: the loop counter i
    count,          \* the value countFreeSpaces / checkFreeSpaces returned
    curAlpha,       \* minimax: alpha of the call being followed
    curBeta,        \* minimax: beta of the call being followed
    curCell,        \* minimax: the cell (i, j) its loop is at
    curDepth,       \* minimax: depth of the call being followed
    lastNode,       \* runMCTS: node, as the latest iteration left it
    lastResult,     \* runMCTS: result of the latest iteration
    tempBoard,      \* simulateGame / simulateRandomGame: tempBoard
    simPlayer       \* simulateGame / simulateRandomGame: currentPlayer

vars == <<program, pc, board, playerMoves, computerMoves, chosenMode, aiChoice,
          currentPlayer, winner, start, bestMove, bestScore, side, tree,
          iterations, iter, count, curAlpha, curBeta, curCell, curDepth,
          lastNode, lastResult, tempBoard, simPlayer>>

(***************************************************************************)
(* Constants of the program                                                *)
(***************************************************************************)
PLAYER == "X"
COMPUTER == "O"
EMPTY == " "
DRAW == "D"
BOARD_SIZE == 3
INT_MAX == 2147483647
INT_MIN == -INT_MAX - 1
NoMove == <<-1, -1>>

Marks == {EMPTY, PLAYER, COMPUTER}

\* A board is the nine chars of board[3][3] in memory order (row-major):
\* board[i][j] is element At(i, j) of the tuple, and cell k of the tuple is
\* the move (row, column) MoveOf(k).
CellCount == BOARD_SIZE * BOARD_SIZE
Cells == 1..CellCount
Boards == [Cells -> Marks]
At(i, j) == BOARD_SIZE * i + j + 1
MoveOf(k) == <<(k - 1) \div BOARD_SIZE, (k - 1) % BOARD_SIZE>>
CellOf(m) == At(m[1], m[2])

Max(p, q) == IF p >= q THEN p ELSE q
Min(p, q) == IF p <= q THEN p ELSE q

\* a switch of turn that keeps the side
SameSide(p) == p

Other(p) == IF p = PLAYER THEN COMPUTER ELSE PLAYER

\* b with cell k set to c: board[i][j] = c
Put(b, k, c) == [b EXCEPT ![k] = c]

EmptyBoard == [k \in Cells |-> EMPTY]

(***************************************************************************)
(* Board model                                                             *)
(***************************************************************************)
\* a scan that finds no free cell
NoFreeCell(b, k) == CellCount + 1

\* for (i) for (j) if (b[i][j] == ' '): the first free cell at or after k in
\* row-major order, CellCount + 1 when the scan runs off the board
NextFree(b, k) ==
    IF \E j \in k..CellCount : b[j] = EMPTY
    THEN CHOOSE j \in k..CellCount :
            b[j] = EMPTY /\ \A i \in k..(j - 1) : b[i] # EMPTY
    ELSE CellCount + 1

\* the free cells in row-major order (the freeSpaces vectors, untriedMoves)
freeSpaces(b) ==
    LET F[k \in 1..(CellCount + 1)] ==
            IF k = CellCount + 1 THEN <<>>
            ELSE IF b[k] = EMPTY THEN <<MoveOf(k)>> \o F[k + 1]
                 ELSE F[k + 1]
    IN F[1]

\* a count that takes the cells of COMPUTER for free cells
countNotPlayer(b) == Cardinality({k \in Cells : b[k] # PLAYER})

countFreeSpaces(b) == Cardinality({k \in Cells : b[k] = EMPTY})

\* the eight lines in the order checkWinner scans them: the rows, the
\* columns, the main diagonal, the anti-diagonal
Lines ==
    << <<At(0, 0), At(0, 1), At(0, 2)>>,
       <<At(1, 0), At(1, 1), At(1, 2)>>,
       <<At(2, 0), At(2, 1), At(2, 2)>>,
       <<At(0, 0), At(1, 0), At(2, 0)>>,
       <<At(0, 1), At(1, 1), At(2, 1)>>,
       <<At(0, 2), At(1, 2), At(2, 2)>>,
       <<At(0, 0), At(1, 1), At(2, 2)>>,
       <<At(0, 2), At(1, 1), At(2, 0)>> >>

\* three equal non-empty marks on line l
Line(b, l) == b[l[1]] # EMPTY /\ b[l[1]] = b[l[2]] /\ b[l[2]] = b[l[3]]

\* a winner check that looks for the full board before it looks for a line
checkWinnerFullFirst(b) ==
    IF \A k \in Cells : b[k] # EMPTY THEN DRAW
    ELSE IF \E i \in 1..Len(Lines) : Line(b, Lines[i])
    THEN b[Lines[CHOOSE i \in 1..Len(Lines) :
                    Line(b, Lines[i]) /\ \A j \in 1..(i - 1) : ~Line(b, Lines[j])][1]]
    ELSE EMPTY

checkWinner(b) ==
    IF Line(b, Lines[1]) THEN b[Lines[1][1]]
    ELSE IF Line(b, Lines[2]) THEN b[Lines[2][1]]
    ELSE IF Line(b, Lines[3]) THEN b[Lines[3][1]]
    ELSE IF Line(b, Lines[4]) THEN b[Lines[4][1]]
    ELSE IF Line(b, Lines[5]) THEN b[Lines[5][1]]
    ELSE IF Line(b, Lines[6]) THEN b[Lines[6][1]]
    ELSE IF Line(b, Lines[7]) THEN b[Lines[7][1]]
    ELSE IF Line(b, Lines[8]) THEN b[Lines[8][1]]
    ELSE IF \A k \in Cells : b[k] # EMPTY THEN DRAW
    ELSE EMPTY

(***************************************************************************)
(* Minimax with alpha-beta pruning.  The code mutates the board in place,  *)
(* so a call returns the score together with the board as it leaves it.    *)
(***************************************************************************)
\* a search that leaves the cells it tried on the board
NoUndo(b, k) == b

\* currentBoard[i][j] = ' ' after the recursive call
Undo(b, k) == Put(b, k, EMPTY)

\* a cutoff taken one score step too early
CutoffEarly(alpha, beta) == beta - 10 <= alpha

\* if (beta <= alpha) return bestScore;
Cutoff(alpha, beta) == beta <= alpha

\* a terminal evaluation that takes a win of PLAYER for a draw
TerminalScoreNoLoss(w) == IF w = COMPUTER THEN 10 ELSE 0

\* the value of a finished position: winner COMPUTER, PLAYER or 'D'
TerminalScore(w) == IF w = COMPUTER THEN 10 ELSE IF w = PLAYER THEN -10 ELSE 0

\* One point of the execution of minimax(currentBoard, depth, isMaximizing,
\* alpha, beta): a = <<currentBoard, depth, isMaximizing, alpha, beta, k,
\* bestScore>>.  k = 0 is the entry of the call; k in Cells is the loop about
\* to try the free cell k with the locals alpha, beta, bestScore as they
\* stand; k = CellCount + 1 is the loop's normal end.
MinimaxPoints == Boards \X Nat \X BOOLEAN \X Int \X Int \X Nat \X Int

minimaxFrom[a \in MinimaxPoints] ==
    LET currentBoard == a[1]
        depth == a[2]
        isMaximizing == a[3]
        alpha == a[4]
        beta == a[5]
        k == a[6]
        best == a[7]
    IN IF k = 0
       THEN LET w == checkWinner(currentBoard)
            IN IF w # EMPTY
               THEN [score |-> TerminalScore(w), board |-> currentBoard]
               ELSE minimaxFrom[<<currentBoard, depth, isMaximizing, alpha, beta,
                                  NextFree(currentBoard, 1),
                                  IF isMaximizing THEN INT_MIN ELSE INT_MAX>>]
       ELSE IF k = CellCount + 1
       THEN [score |-> best, board |-> currentBoard]
       ELSE IF isMaximizing
       THEN LET r == minimaxFrom[<<Put(currentBoard, k, COMPUTER), depth + 1,
                                   FALSE, alpha, beta, 0, 0>>]
                b2 == Undo(r.board, k)
                best2 == Max(best, r.score)
                alpha2 == Max(alpha, r.score)
            IN IF Cutoff(alpha2, beta)
               THEN [score |-> best2, board |-> b2]
               ELSE minimaxFrom[<<b2, depth, TRUE, alpha2, beta,
                                  NextFree(b2, k + 1), best2>>]
       ELSE LET r == minimaxFrom[<<Put(currentBoard, k, PLAYER), depth + 1,
                                   TRUE, alpha, beta, 0, 0>>]
                b2 == Undo(r.board, k)
                best2 == Min(best, r.score)
                beta2 == Min(beta, r.score)
            IN IF Cutoff(alpha, beta2)
               THEN [score |-> best2, board |-> b2]
               ELSE minimaxFrom[<<b2, depth, FALSE, alpha, beta2,
                                  NextFree(b2, k + 1), best2>>]

minimax(currentBoard, depth, isMaximizing, alpha, beta) ==
    minimaxFrom[<<currentBoard, depth, isMaximizing, alpha, beta, 0, 0>>]

\* a driver whose best score starts at the score of a loss
BetterThanLoss(score, best) == score > Max(best, -10)

\* a driver that also takes a move on an equal score
BetterOrEqual(score, best) == score >= best

\* if (score > bestScore): the driver takes a move only on a strictly
\* greater score
Better(score, best) == score > best

\* The search loop of minimaxMove: a = <<board, k, bestScore, bestMove>> is
\* the loop about to try the free cell k (k = CellCount + 1: the loop is
\* over) with the locals bestScore and bestMove as they stand.
DriverPoints == Boards \X Nat \X Int \X (Int \X Int)

minimaxMoveFrom[a \in DriverPoints] ==
    IF a[2] = CellCount + 1
    THEN [bestScore |-> a[3], bestMove |-> a[4], board |-> a[1]]
    ELSE LET r == minimax(Put(a[1], a[2], COMPUTER), 0, FALSE, INT_MIN, INT_MAX)
             b2 == Undo(r.board, a[2])
         IN IF Better(r.score, a[3])
            THEN minimaxMoveFrom[<<b2, NextFree(b2, a[2] + 1), r.score, MoveOf(a[2])>>]
            ELSE minimaxMoveFrom[<<b2, NextFree(b2, a[2] + 1), a[3], a[4]>>]

\* a driver that places its move and leaves the history as it is
minimaxMoveUnlogged(b, moves) ==
    LET s == minimaxMoveFrom[<<b, NextFree(b, 1), INT_MIN, NoMove>>]
    IN [bestScore |-> s.bestScore, bestMove |-> s.bestMove,
        board |-> IF s.bestMove[1] # -1
                  THEN Put(s.board, CellOf(s.bestMove), COMPUTER)
                  ELSE s.board,
        computerMoves |-> moves]

\* minimaxMove: the search, then the placement and the history entry
minimaxMove(b, moves) ==
    LET s == minimaxMoveFrom[<<b, NextFree(b, 1), INT_MIN, NoMove>>]
    IN IF s.bestMove[1] # -1
       THEN [bestScore |-> s.bestScore, bestMove |-> s.bestMove,
             board |-> Put(s.board, CellOf(s.bestMove), COMPUTER),
             computerMoves |-> Append(moves, s.bestMove)]
       ELSE [bestScore |-> s.bestScore, bestMove |-> s.bestMove,
             board |-> s.board, computerMoves |-> moves]

(***************************************************************************)
(* Random-move selector                                                    *)
(***************************************************************************)
\* a selector that always takes the first free cell
getFirstFreeMove(currentBoard) ==
    LET fs == freeSpaces(currentBoard)
    IN IF fs = <<>> THEN {NoMove} ELSE {fs[1]}

\* getRandomComputerMove: the moves it can return (rand() picks the index)
getRandomComputerMove(currentBoard) ==
    LET fs == freeSpaces(currentBoard)
    IN IF fs = <<>> THEN {NoMove}
       ELSE {fs[n + 1] : n \in 0..(Len(fs) - 1)}

(***************************************************************************)
(* Monte Carlo tree search.  The tree is the sequence of its nodes in the  *)
(* order they were allocated: the root is node 1, a NodePtr is an index    *)
(* and NULL is 0.                                                          *)
(***************************************************************************)
NULL == 0

\* MCTSNode(b, p, lm, player): W(0), N(0), no children, the free cells of b
\* as untriedMoves.  TicTacToe.cpp then shuffles untriedMoves: every order is
\* possible, and the order is only ever read by expandNode taking the last
\* element, so that build keeps the row-major list and expandNode takes any
\* element of it (see ExpandChoices).
MCTSNode(b, p, lm, player) ==
    [boardState |-> b, playerToMove |-> player, lastMove |-> lm,
     W |-> 0, N |-> 0, parent |-> p, children |-> <<>>,
     untriedMoves |-> freeSpaces(b)]

\* the largest r with r * r <= x, for x in lo*lo .. (hi+1)*(hi+1) - 1
RECURSIVE SqrtBetween(_, _, _)
SqrtBetween(x, lo, hi) ==
    IF lo = hi THEN lo
    ELSE CHOOSE r \in {IF mid * mid <= x THEN SqrtBetween(x, mid, hi)
                       ELSE SqrtBetween(x, lo, mid - 1) :
                          mid \in {(lo + hi + 1) \div 2}} : TRUE

\* log(parentVisits) in units of 10^-8, rounded, for parentVisits = 1..12
LogE8 ==
    <<0, 69314718, 109861229, 138629436, 160943791, 179175947, 194591015,
      207944154, 219722458, 230258509, 239789527, 248490665>>

\* UCT values are kept in units of 10^-7: UctUnit is the double 1.0
UctUnit == 10000000

\* log(0) is -infinity and the square root of a negative number is NaN, which
\* is greater than nothing: the smallest value stands for it
NaN == INT_MIN

\* calculateUCT: W / N + 1.414 * sqrt(log(parentVisits) / N), INT_MAX for a
\* node never visited
calculateUCT(node, parentVisits) ==
    IF node.N = 0 THEN INT_MAX
    ELSE IF parentVisits < 1 THEN NaN
    ELSE (node.W * UctUnit) \div node.N
         + 1414 * SqrtBetween(LogE8[parentVisits] \div node.N, 0, 46340)

\* a comparison that also takes a child with an equal value
UctGreaterOrEqual(uct, best) == uct >= best

\* uctValue > bestUCT
UctGreater(uct, best) == uct > best

\* selectChild / selectBestChild: the first child with the greatest UCT value
\* above -1.0, NULL when there is none
selectChild(t, node) ==
    LET kids == t[node].children
        S[i \in 0..Len(kids)] ==
            IF i = 0 THEN [bestChild |-> NULL, bestUCT |-> -UctUnit]
            ELSE LET uct == calculateUCT(t[kids[i]], t[node].N)
                 IN IF UctGreater(uct, S[i - 1].bestUCT)
                    THEN [bestChild |-> kids[i], bestUCT |-> uct]
                    ELSE S[i - 1]
    IN S[Len(kids)].bestChild

\* a selection phase that descends as soon as the node has a child
DescendsWithUntried(prog, t, node) ==
    /\ t[node].children # <<>>
    /\ checkWinner(t[node].boardState) = EMPTY

\* the loop condition of the selection phase at node
SelectionGoesOn(prog, t, node) ==
    /\ t[node].untriedMoves = <<>>
    /\ checkWinner(t[node].boardState) = EMPTY
    /\ prog = "part_001" => t[node].children # <<>>

\* 1. Selection: the node the descent from `node` ends at.  TicTacToe.cpp
\* keeps the node when selectChild returns NULL; part_001 assigns the NULL to
\* node before it breaks.
RECURSIVE Selection(_, _, _)
Selection(prog, t, node) ==
    IF SelectionGoesOn(prog, t, node)
    THEN CHOOSE r \in {IF selected = NULL
                       THEN IF prog = "part_001" THEN NULL ELSE node
                       ELSE Selection(prog, t, selected) :
                          selected \in {selectChild(t, node)}} : TRUE
    ELSE node

\* an expansion phase that does not look at the winner
ExpandsFinished(t, node) == t[node].untriedMoves # <<>>

\* 2. Expansion: if (!node->untriedMoves.empty() && checkWinner(...) == ' ')
Expands(t, node) ==
    /\ t[node].untriedMoves # <<>>
    /\ checkWinner(t[node].boardState) = EMPTY

\* the moves expandNode can take from untriedMoves: the last one, which after
\* the shuffle of TicTacToe.cpp is any of them
ExpandChoices(prog, untried) ==
    IF prog = "part_001" THEN {Len(untried)} ELSE 1..Len(untried)

\* a removal that leaves the sequence as it is
WithoutNone(s, i) == s

\* all of s but element i
Without(s, i) == SubSeq(s, 1, i - 1) \o SubSeq(s, i + 1, Len(s))

\* expandNode(node) taking element i of untriedMoves: the tree with the new
\* child allocated at its end
expandNode(t, node, i) ==
    LET move == t[node].untriedMoves[i]
        newBoard == Put(t[node].boardState, CellOf(move), t[node].playerToMove)
        nextPlayer == Other(t[node].playerToMove)
        newChild == Len(t) + 1
    IN Append([t EXCEPT ![node].untriedMoves = Without(@, i),
                        ![node].children = Append(@, newChild)],
              MCTSNode(newBoard, node, move, nextPlayer))

\* the results simulateGame / simulateRandomGame can return from board a[1]
\* with a[2] to move: one for every way rand() can pick the cells
simulateFrom[a \in Boards \X {PLAYER, COMPUTER}] ==
    LET w == checkWinner(a[1])
    IN IF w # EMPTY
       THEN {IF w = COMPUTER THEN 10 ELSE IF w = PLAYER THEN -10 ELSE 0}
       ELSE UNION {simulateFrom[<<Put(a[1], k, a[2]), Other(a[2])>>] :
                      k \in {j \in Cells : a[1][j] = EMPTY}}

simulateRandomGame(startBoard, playerToMove) ==
    simulateFrom[<<startBoard, playerToMove>>]

\* the result of the iteration at a node: a rollout, or the terminal value
\* of the node's board
ResultsAt(n) ==
    LET w == checkWinner(n.boardState)
    IN IF w = EMPTY THEN simulateRandomGame(n.boardState, n.playerToMove)
       ELSE IF w = COMPUTER THEN {10}
       ELSE IF w = PLAYER THEN {-10}
       ELSE {0}

\* a backpropagation that stops at the node it starts from
OnlyNode(t, node) == {node}

\* the nodes backpropagate walks: node, its parent, ... up to the root
Ancestors(t, node) ==
    LET A[n \in 0..Len(t)] == IF n = NULL THEN {} ELSE {n} \cup A[t[n].parent]
    IN A[node]

\* a score that counts a draw as a win
scoreToAddNoLoss(result) == IF result = -10 THEN 0 ELSE 1

\* int score_to_backpropagate
scoreToAdd(result) == IF result = 10 THEN 1 ELSE 0

backpropagate(t, node, result) ==
    LET path == Ancestors(t, node)
    IN [n \in 1..Len(t) |->
           IF n \in path
           THEN [t[n] EXCEPT !.N = @ + 1, !.W = @ + scoreToAdd(result)]
           ELSE t[n]]

\* a final selection by win rate W / N: the first root child with the
\* greatest rate (compared as W1 * N2 > W2 * N1)
bestRateChildOf(t) ==
    LET kids == t[1].children
        S[i \in 0..Len(kids)] ==
            IF i = 0 THEN NULL
            ELSE IF S[i - 1] = NULL THEN kids[i]
            ELSE IF t[kids[i]].W * t[S[i - 1]].N > t[S[i - 1]].W * t[kids[i]].N
                 THEN kids[i]
                 ELSE S[i - 1]
    IN S[Len(kids)]

\* the end of runMCTS: the first root child with the most visits
bestChildOf(t) ==
    LET kids == t[1].children
        S[i \in 0..Len(kids)] ==
            IF i = 0 THEN [bestChild |-> NULL, maxVisits |-> -1]
            ELSE IF t[kids[i]].N > S[i - 1].maxVisits
                 THEN [bestChild |-> kids[i], maxVisits |-> t[kids[i]].N]
                 ELSE S[i - 1]
    IN S[Len(kids)].bestChild

(***************************************************************************)
(* The searches called on their own: every input board, every search       *)
(***************************************************************************)
Programs == {"TicTacToe", "part_001"}
CountOf(b, c) == Cardinality({k \in Cells : b[k] = c})

\* the boards a search is tried on: X moves first in every game, so X has as
\* many marks as O or one more (lines may already be complete)
InputBoards ==
    {b \in Boards : CountOf(b, PLAYER) - CountOf(b, COMPUTER) \in {0, 1}}

\* runMCTS is tried on the boards with at most MaxFree free cells and with
\* up to MaxIter iterations
MaxFree == 2
MaxIter == 3

\* In a game, a call of runMCTS is followed for its first MaxGameIter
\* iterations (the budgets of the difficulty menu are 200 and more).
MaxGameIter == 1

\* In a game against the minimax difficulty the human may enter every cell;
\* in the other games (two humans, random or MCTS opponent) a human turn
\* takes one of the first MaxChoice free cells of the board.
MaxChoice == 2

InitSearch ==
    /\ program \in Programs
    /\ pc = "call"
    /\ board \in InputBoards
    /\ start = board
    /\ playerMoves = <<>>
    /\ computerMoves = <<>>
    /\ chosenMode = "2"
    /\ aiChoice = EMPTY
    /\ currentPlayer = COMPUTER
    /\ winner = EMPTY
    /\ bestMove = NoMove
    /\ bestScore = 0
    /\ side = FALSE
    /\ tree = <<>>
    /\ iterations = 0
    /\ iter = 0
    /\ count = 0
    /\ curAlpha = INT_MIN
    /\ curBeta = INT_MAX
    /\ curCell = 0
    /\ curDepth = 0
    /\ lastNode = NULL
    /\ lastResult = 0
    /\ tempBoard = EmptyBoard
    /\ simPlayer = EMPTY

\* minimax(board, 0, isMaximizing, INT_MIN, INT_MAX), as minimaxMove calls it
CallMinimax ==
    /\ pc = "call"
    /\ \E isMaximizing \in BOOLEAN :
          \E r \in {minimax(board, 0, isMaximizing, INT_MIN, INT_MAX)} :
             /\ board' = r.board
             /\ bestScore' = r.score
             /\ side' = isMaximizing
    /\ pc' = "minimaxReturned"
    /\ UNCHANGED <<program, playerMoves, computerMoves, chosenMode, aiChoice,
                   currentPlayer, winner, start, bestMove, tree, iterations, iter,
                   count, curAlpha, curBeta, curCell, curDepth,
                   lastNode, lastResult, tempBoard, simPlayer>>

\* minimaxMove()
CallMinimaxMove ==
    /\ pc = "call"
    /\ \E r \in {minimaxMove(board, computerMoves)} :
          /\ board' = r.board
          /\ bestScore' = r.bestScore
          /\ bestMove' = r.bestMove
          /\ computerMoves' = r.computerMoves
    /\ pc' = "minimaxMoveReturned"
    /\ UNCHANGED <<program, playerMoves, chosenMode, aiChoice, currentPlayer,
                   winner, start, side, tree, iterations, iter, count,
                   curAlpha, curBeta, curCell, curDepth,
                   lastNode, lastResult, tempBoard, simPlayer>>

\* getRandomComputerMove(board)
CallRandom ==
    /\ pc = "call"
    /\ program = "part_001"
    /\ bestMove' \in getRandomComputerMove(board)
    /\ pc' = "randomReturned"
    /\ UNCHANGED <<program, board, playerMoves, computerMoves, chosenMode, aiChoice,
                   currentPlayer, winner, start, bestScore, side, tree, iterations,
                   iter, count, curAlpha, curBeta, curCell, curDepth,
                   lastNode, lastResult, tempBoard, simPlayer>>

\* runMCTS(board, k): the root node is allocated
CallRunMCTS ==
    /\ pc = "call"
    /\ countFreeSpaces(board) <= MaxFree
    /\ \E k \in -1..MaxIter : iterations' = k
    /\ iter' = 0
    /\ tree' = <<MCTSNode(board, NULL, NoMove, COMPUTER)>>
    /\ pc' = "runMCTS"
    /\ UNCHANGED <<program, board, playerMoves, computerMoves, chosenMode, aiChoice,
                   currentPlayer, winner, start, bestMove, bestScore, side,
                   count, curAlpha, curBeta, curCell, curDepth,
                   lastNode, lastResult, tempBoard, simPlayer>>

\* one iteration of the loop of runMCTS: selection, expansion, simulation,
\* backpropagation.  In part_001 a NULL from selectBestChild is dereferenced
\* by the expansion phase: the behaviour is undefined from there on.
Iterate ==
    /\ pc \in {"runMCTS", "mctsMove"}
    /\ iter < iterations
    /\ pc = "mctsMove" => iter < MaxGameIter
    /\ \E node \in {Selection(program, tree, 1)} :
          IF node = NULL
          THEN /\ pc' = "undefined"
               /\ UNCHANGED <<tree, iter, lastNode, lastResult>>
          ELSE /\ \E expands \in {Expands(tree, node)} :
                  \E i \in IF expands
                           THEN ExpandChoices(program, tree[node].untriedMoves)
                           ELSE {0} :
                  \E t2 \in {IF expands THEN expandNode(tree, node, i) ELSE tree} :
                  \E n2 \in {IF expands THEN Len(t2) ELSE node} :
                  \E result \in ResultsAt(t2[n2]) :
                     /\ tree' = backpropagate(t2, n2, result)
                     /\ lastNode' = n2
                     /\ lastResult' = result
               /\ iter' = iter + 1
               /\ pc' = pc
    /\ UNCHANGED <<program, board, playerMoves, computerMoves, chosenMode, aiChoice,
                   currentPlayer, winner, start, bestMove, bestScore, side,
                   iterations, count, curAlpha, curBeta, curCell, curDepth,
                   tempBoard, simPlayer>>

\* the end of runMCTS: the move of the most visited root child, delete root
\* (the locals of the loop are gone)
ReturnMCTS ==
    /\ pc = "runMCTS"
    /\ ~(iter < iterations)
    /\ LET bestChild == bestChildOf(tree)
       IN bestMove' = IF bestChild # NULL THEN tree[bestChild].lastMove ELSE NoMove
    /\ tree' = <<>>
    /\ lastNode' = NULL
    /\ lastResult' = 0
    /\ pc' = "runMCTSReturned"
    /\ UNCHANGED <<program, board, playerMoves, computerMoves, chosenMode, aiChoice,
                   currentPlayer, winner, start, bestScore, side, iterations, iter,
                   count, curAlpha, curBeta, curCell, curDepth,
                   tempBoard, simPlayer>>

\* what mctsMove does with the move of runMCTS, and main with the move of
\* getRandomComputerMove: if (bestMove.first != -1) place it and log it,
\* else only an error message
ApplyMove ==
    /\ pc \in {"runMCTSReturned", "randomReturned"}
    /\ IF bestMove[1] # -1
       THEN /\ board' = Put(board, CellOf(bestMove), COMPUTER)
            /\ computerMoves' = Append(computerMoves, bestMove)
       ELSE UNCHANGED <<board, computerMoves>>
    /\ pc' = "moveApplied"
    /\ UNCHANGED <<program, playerMoves, chosenMode, aiChoice, currentPlayer,
                   winner, start, bestMove, bestScore, side, tree, iterations, iter,
                   count, curAlpha, curBeta, curCell, curDepth,
                   lastNode, lastResult, tempBoard, simPlayer>>

NextSearch ==
    \/ CallMinimax
    \/ CallMinimaxMove
    \/ CallRandom
    \/ CallRunMCTS
    \/ Iterate
    \/ ReturnMCTS
    \/ ApplyMove

SpecSearch == InitSearch /\ [][NextSearch]_vars

\* runMCTS alone
NextMCTS == CallRunMCTS \/ Iterate \/ ReturnMCTS

SpecMCTS == InitSearch /\ [][NextMCTS]_vars

\* The tree of a longer run: runMCTS is followed for MaxTreeIter iterations
\* on the boards with at most MaxTreeFree free cells.
MaxTreeFree == 2
MaxTreeIter == 8

\* runMCTS(board, MaxTreeIter) has allocated its root
InitTree ==
    /\ program \in Programs
    /\ pc = "runMCTS"
    /\ board \in {b \in InputBoards : countFreeSpaces(b) <= MaxTreeFree}
    /\ start = board
    /\ playerMoves = <<>>
    /\ computerMoves = <<>>
    /\ chosenMode = "2"
    /\ aiChoice = EMPTY
    /\ currentPlayer = COMPUTER
    /\ winner = EMPTY
    /\ bestMove = NoMove
    /\ bestScore = 0
    /\ side = FALSE
    /\ tree = <<MCTSNode(board, NULL, NoMove, COMPUTER)>>
    /\ iterations = MaxTreeIter
    /\ iter = 0
    /\ count = 0
    /\ curAlpha = INT_MIN
    /\ curBeta = INT_MAX
    /\ curCell = 0
    /\ curDepth = 0
    /\ lastNode = NULL
    /\ lastResult = 0
    /\ tempBoard = EmptyBoard
    /\ simPlayer = EMPTY

NextTree == Iterate \/ ReturnMCTS

SpecTree == InitTree /\ [][NextTree]_vars

\* an iteration of runMCTS followed up to the end of its expansion phase:
\* the selection phase ends at a node with an untried move and an Ongoing
\* board, and node = expandNode(node)
ExpandStep ==
    /\ pc = "runMCTS"
    /\ iter < iterations
    /\ \E node \in {Selection(program, tree, 1)} :
          /\ node # NULL
          /\ Expands(tree, node)
          /\ \E i \in ExpandChoices(program, tree[node].untriedMoves) :
                /\ tree' = expandNode(tree, node, i)
                /\ lastNode' = Len(tree) + 1
    /\ pc' = "expanded"
    /\ UNCHANGED <<program, board, playerMoves, computerMoves, chosenMode, aiChoice,
                   currentPlayer, winner, start, bestMove, bestScore, side,
                   iterations, iter, count, curAlpha, curBeta, curCell, curDepth,
                   lastResult, tempBoard, simPlayer>>

NextExpand == Iterate \/ ExpandStep

SpecExpand == InitTree /\ [][NextExpand]_vars

\* The rollout followed step by step: simulateGame(node->boardState,
\* node->playerToMove) is called on the nodes with an Ongoing board of at
\* most MaxRollFree free cells and either side to move.
MaxRollFree == 3

InitRollout ==
    /\ program \in Programs
    /\ pc = "simulateEntry"
    /\ board \in {b \in InputBoards :
                    checkWinner(b) = EMPTY /\ countFreeSpaces(b) <= MaxRollFree}
    /\ start = board
    /\ playerMoves = <<>>
    /\ computerMoves = <<>>
    /\ chosenMode = "2"
    /\ aiChoice = EMPTY
    /\ currentPlayer = COMPUTER
    /\ winner = EMPTY
    /\ bestMove = NoMove
    /\ bestScore = 0
    /\ side = FALSE
    /\ \E player \in {PLAYER, COMPUTER} :
          tree = <<MCTSNode(board, NULL, NoMove, player)>>
    /\ iterations = 1
    /\ iter = 0
    /\ count = 0
    /\ curAlpha = INT_MIN
    /\ curBeta = INT_MAX
    /\ curCell = 0
    /\ curDepth = 0
    /\ lastNode = 1
    /\ lastResult = 0
    /\ tempBoard = EmptyBoard
    /\ simPlayer = EMPTY

\* the head of simulateGame: the board is copied to tempBoard and
\* currentPlayer = playerToMove
SimulateEntry ==
    /\ pc = "simulateEntry"
    /\ tempBoard' = tree[lastNode].boardState
    /\ simPlayer' = tree[lastNode].playerToMove
    /\ pc' = "simulateLoop"
    /\ UNCHANGED <<program, board, playerMoves, computerMoves, chosenMode, aiChoice,
                   currentPlayer, winner, start, bestMove, bestScore, side, tree,
                   iterations, iter, count, curAlpha, curBeta, curCell, curDepth,
                   lastNode, lastResult>>

\* the loop of simulateGame finds a winner or a draw and returns
SimulateReturn ==
    /\ pc = "simulateLoop"
    /\ checkWinner(tempBoard) # EMPTY \/ freeSpaces(tempBoard) = <<>>
    /\ lastResult' = IF checkWinner(tempBoard) = COMPUTER THEN 10
                     ELSE IF checkWinner(tempBoard) = PLAYER THEN -10
                     ELSE 0
    /\ pc' = "simulateReturned"
    /\ UNCHANGED <<program, board, playerMoves, computerMoves, chosenMode, aiChoice,
                   currentPlayer, winner, start, bestMove, bestScore, side, tree,
                   iterations, iter, count, curAlpha, curBeta, curCell, curDepth,
                   lastNode, tempBoard, simPlayer>>

\* a loop of simulateGame that switches the turn without placing a mark
SimulateStepInPlace ==
    /\ pc = "simulateLoop"
    /\ checkWinner(tempBoard) = EMPTY
    /\ freeSpaces(tempBoard) # <<>>
    /\ simPlayer' = Other(simPlayer)
    /\ UNCHANGED <<program, pc, board, playerMoves, computerMoves, chosenMode,
                   aiChoice, currentPlayer, winner, start, bestMove, bestScore, side,
                   tree, iterations, iter, count, curAlpha, curBeta, curCell,
                   curDepth, lastNode, lastResult, tempBoard>>

\* the loop of simulateGame places currentPlayer on freeSpaces[rand() %
\* freeSpaces.size()] and switches the turn
SimulateStep ==
    /\ pc = "simulateLoop"
    /\ checkWinner(tempBoard) = EMPTY
    /\ freeSpaces(tempBoard) # <<>>
    /\ \E random_index \in 0..(Len(freeSpaces(tempBoard)) - 1) :
          tempBoard' = Put(tempBoard, CellOf(freeSpaces(tempBoard)[random_index + 1]),
                           simPlayer)
    /\ simPlayer' = Other(simPlayer)
    /\ UNCHANGED <<program, pc, board, playerMoves, computerMoves, chosenMode,
                   aiChoice, currentPlayer, winner, start, bestMove, bestScore, side,
                   tree, iterations, iter, count, curAlpha, curBeta, curCell,
                   curDepth, lastNode, lastResult>>

NextRollout == SimulateEntry \/ SimulateStep \/ SimulateReturn

SpecRollout == InitRollout /\ [][NextRollout]_vars

(***************************************************************************)
(* A call of minimax followed step by step: at each recursive call of its  *)
(* loop the call is either stepped over (the callee runs to its return) or *)
(* stepped into (the callee becomes the call that is followed).            *)
(***************************************************************************)
\* the calls of a search are followed for the searches minimaxMove makes on
\* the boards with at most MaxCallFree free cells
MaxCallFree == 6

\* single calls with any window are made on the boards with at most
\* MaxWindowFree free cells
MaxWindowFree == 5

\* the boards minimaxMove hands to minimax: an input board with COMPUTER
\* placed on one of its free cells
DriverCalls ==
    {Put(p[1], p[2], COMPUTER) :
        p \in {q \in InputBoards \X Cells :
                  q[1][q[2]] = EMPTY /\ countFreeSpaces(q[1]) <= MaxCallFree}}

\* the scores minimax can return and the two ends of the full window
WindowValues == {INT_MIN, -10, 0, 10, INT_MAX}

\* the locals of the program other than the call of minimax that is followed
IdleRest ==
    /\ program \in Programs
    /\ playerMoves = <<>>
    /\ computerMoves = <<>>
    /\ chosenMode = "2"
    /\ aiChoice = EMPTY
    /\ currentPlayer = COMPUTER
    /\ winner = EMPTY
    /\ bestMove = NoMove
    /\ bestScore = 0
    /\ tree = <<>>
    /\ iterations = 0
    /\ iter = 0
    /\ count = 0
    /\ curCell = 0
    /\ lastNode = NULL
    /\ lastResult = 0
    /\ tempBoard = EmptyBoard
    /\ simPlayer = EMPTY

\* minimax(board, 0, false, INT_MIN, INT_MAX) is entered, as minimaxMove
\* calls it
InitCalls ==
    /\ IdleRest
    /\ pc = "minimaxEntry"
    /\ board \in DriverCalls
    /\ start = board
    /\ side = FALSE
    /\ curAlpha = INT_MIN
    /\ curBeta = INT_MAX
    /\ curDepth = 0

\* minimax(board, 0, isMaximizing, alpha, beta) is entered with a window
\* alpha < beta
InitWindow ==
    /\ IdleRest
    /\ pc = "minimaxEntry"
    /\ board \in {b \in InputBoards : countFreeSpaces(b) <= MaxWindowFree}
    /\ start = board
    /\ side \in BOOLEAN
    /\ curAlpha \in WindowValues
    /\ curBeta \in WindowValues
    /\ curAlpha < curBeta
    /\ curDepth = 0

\* the head of minimax: the terminal evaluation, or bestScore = INT_MIN /
\* INT_MAX and the loop starts
EnterMinimax ==
    /\ pc = "minimaxEntry"
    /\ IF checkWinner(board) # EMPTY
       THEN /\ bestScore' = TerminalScore(checkWinner(board))
            /\ pc' = "terminalReturn"
            /\ UNCHANGED curCell
       ELSE /\ bestScore' = IF side THEN INT_MIN ELSE INT_MAX
            /\ curCell' = NextFree(board, 1)
            /\ pc' = "minimaxLoop"
    /\ UNCHANGED <<program, board, playerMoves, computerMoves, chosenMode, aiChoice,
                   currentPlayer, winner, start, bestMove, side, tree, iterations,
                   iter, count, curAlpha, curBeta, curDepth,
                   lastNode, lastResult, tempBoard, simPlayer>>

\* the loop is at a free cell: the mark is placed and the recursive call is
\* followed from its entry
StepInto ==
    /\ pc = "minimaxLoop"
    /\ curCell <= CellCount
    /\ board' = Put(board, curCell, IF side THEN COMPUTER ELSE PLAYER)
    /\ start' = board'
    /\ side' = ~side
    /\ curCell' = 0
    /\ curDepth' = curDepth + 1
    /\ bestScore' = 0
    /\ pc' = "minimaxEntry"
    /\ UNCHANGED <<program, playerMoves, computerMoves, chosenMode, aiChoice,
                   currentPlayer, winner, bestMove, tree, iterations, iter, count,
                   curAlpha, curBeta, lastNode, lastResult,
                   tempBoard, simPlayer>>

\* the loop is at a free cell: the mark is placed, the recursive call runs
\* to its return, the cell is restored, bestScore and alpha or beta are
\* updated, and the call returns early if beta <= alpha
StepOver ==
    /\ pc = "minimaxLoop"
    /\ curCell <= CellCount
    /\ \E r \in {minimax(Put(board, curCell, IF side THEN COMPUTER ELSE PLAYER),
                          curDepth + 1, ~side, curAlpha, curBeta)} :
       \E a2 \in {IF side THEN Max(curAlpha, r.score) ELSE curAlpha} :
       \E b2 \in {IF side THEN curBeta ELSE Min(curBeta, r.score)} :
          /\ board' = Undo(r.board, curCell)
          /\ bestScore' = IF side THEN Max(bestScore, r.score)
                          ELSE Min(bestScore, r.score)
          /\ curAlpha' = a2
          /\ curBeta' = b2
          /\ IF Cutoff(a2, b2)
             THEN pc' = "cutoffReturn" /\ UNCHANGED curCell
             ELSE /\ pc' = "minimaxLoop"
                  /\ curCell' = NextFree(Undo(r.board, curCell), curCell + 1)
    /\ UNCHANGED <<program, playerMoves, computerMoves, chosenMode, aiChoice,
                   currentPlayer, winner, start, bestMove, side, tree, iterations,
                   iter, count, curDepth,
                   lastNode, lastResult, tempBoard, simPlayer>>

\* the loop has run off the board: return bestScore
LoopEnd ==
    /\ pc = "minimaxLoop"
    /\ curCell = CellCount + 1
    /\ pc' = "loopReturn"
    /\ UNCHANGED <<program, board, playerMoves, computerMoves, chosenMode, aiChoice,
                   currentPlayer, winner, start, bestMove, bestScore, side, tree,
                   iterations, iter, count, curAlpha, curBeta, curCell, curDepth,
                   lastNode, lastResult, tempBoard, simPlayer>>

\* the call that was entered, minimax(board, depth, isMaximizing, alpha,
\* beta), runs to its return
CallWindow ==
    /\ pc = "minimaxEntry"
    /\ \E r \in {minimax(board, curDepth, side, curAlpha, curBeta)} :
          /\ board' = r.board
          /\ bestScore' = r.score
    /\ pc' = "windowReturned"
    /\ UNCHANGED <<program, playerMoves, computerMoves, chosenMode, aiChoice,
                   currentPlayer, winner, start, bestMove, side, tree, iterations,
                   iter, count, curAlpha, curBeta, curCell, curDepth,
                   lastNode, lastResult, tempBoard, simPlayer>>

NextCalls ==
    \/ EnterMinimax
    \/ StepInto
    \/ StepOver
    \/ LoopEnd
    \/ CallWindow

\* the calls made during the searches of the driver
SpecCalls == InitCalls /\ [][NextCalls]_vars

\* a call with any window alpha < beta, run as a whole
NextWindow == CallWindow

SpecWindow == InitWindow /\ [][NextWindow]_vars

\* single calls with any depth argument are made on the boards with at most
\* MaxDepthFree free cells and with depth 0 .. MaxDepth
MaxDepthFree == 3
MaxDepth == 2

\* minimax(board, depth, isMaximizing, alpha, beta) is entered with a depth
\* argument and a window alpha < beta
InitDepth ==
    /\ IdleRest
    /\ pc = "minimaxEntry"
    /\ board \in {b \in InputBoards : countFreeSpaces(b) <= MaxDepthFree}
    /\ start = board
    /\ side \in BOOLEAN
    /\ curAlpha \in WindowValues
    /\ curBeta \in WindowValues
    /\ curAlpha < curBeta
    /\ curDepth \in 0..MaxDepth

\* a call with any depth argument, run as a whole
NextDepth == CallWindow

SpecDepth == InitDepth /\ [][NextDepth]_vars

(***************************************************************************)
(* The three searches run to their end: a followed call of minimax, a      *)
(* rollout and a run of runMCTS.  The program is sequential and none of    *)
(* its steps waits for anything, so a step that can be taken is taken.     *)
(***************************************************************************)
InitRun == InitCalls \/ InitRollout \/ InitTree

NextRun ==
    \/ EnterMinimax
    \/ StepInto
    \/ StepOver
    \/ LoopEnd
    \/ SimulateEntry
    \/ SimulateStep
    \/ SimulateReturn
    \/ Iterate
    \/ ReturnMCTS

SpecRun == InitRun /\ [][NextRun]_vars /\ WF_vars(NextRun)

(***************************************************************************)
(* The functions of the board model called on their own, on every board    *)
(***************************************************************************)
InitBoard ==
    /\ program \in Programs
    /\ pc = "call"
    /\ board \in Boards
    /\ start = board
    /\ playerMoves = <<>>
    /\ computerMoves = <<>>
    /\ chosenMode = "2"
    /\ aiChoice = EMPTY
    /\ currentPlayer = COMPUTER
    /\ winner = EMPTY
    /\ bestMove = NoMove
    /\ bestScore = 0
    /\ side = FALSE
    /\ tree = <<>>
    /\ iterations = 0
    /\ iter = 0
    /\ count = 0
    /\ curAlpha = INT_MIN
    /\ curBeta = INT_MAX
    /\ curCell = 0
    /\ curDepth = 0
    /\ lastNode = NULL
    /\ lastResult = 0
    /\ tempBoard = EmptyBoard
    /\ simPlayer = EMPTY

\* winner = checkWinner(board)
CallCheckWinner ==
    /\ pc = "call"
    /\ winner' = checkWinner(board)
    /\ pc' = "checkWinnerReturned"
    /\ UNCHANGED <<program, board, playerMoves, computerMoves, chosenMode, aiChoice,
                   currentPlayer, start, bestMove, bestScore, side, tree, iterations,
                   iter, count, curAlpha, curBeta, curCell, curDepth,
                   lastNode, lastResult, tempBoard, simPlayer>>

\* countFreeSpaces(board) / checkFreeSpaces()
CallCountFreeSpaces ==
    /\ pc = "call"
    /\ count' = countFreeSpaces(board)
    /\ pc' = "countReturned"
    /\ UNCHANGED <<program, board, playerMoves, computerMoves, chosenMode, aiChoice,
                   currentPlayer, winner, start, bestMove, bestScore, side, tree,
                   iterations, iter, curAlpha, curBeta, curCell, curDepth,
                   lastNode, lastResult, tempBoard, simPlayer>>

\* new MCTSNode(board, NULL, make_pair(-1, -1), COMPUTER)
NewNode ==
    /\ pc = "call"
    /\ tree' = <<MCTSNode(board, NULL, NoMove, COMPUTER)>>
    /\ pc' = "nodeMade"
    /\ UNCHANGED <<program, board, playerMoves, computerMoves, chosenMode, aiChoice,
                   currentPlayer, winner, start, bestMove, bestScore, side,
                   iterations, iter, count, curAlpha, curBeta, curCell, curDepth,
                   lastNode, lastResult, tempBoard, simPlayer>>

NextBoard ==
    \/ CallCheckWinner
    \/ CallCountFreeSpaces
    \/ CallRandom
    \/ NewNode

SpecBoard == InitBoard /\ [][NextBoard]_vars

(***************************************************************************)
(* The game: main()                                                        *)
(***************************************************************************)
\* a difficulty menu that accepts every letter
AnyLetter(prog) == {"E", "M", "H", "R", "I"}

\* the difficulty menu of each build: the tags it accepts
Difficulties(prog) ==
    IF prog = "part_001" THEN {"R", "H", "I"} ELSE {"E", "M", "H"}

\* the tag main() dispatches to minimaxMove
MinimaxTag(prog) == IF prog = "part_001" THEN "I" ELSE "H"

\* mctsIterationsForDifficulty / getMctsIterationsForDifficulty
EasyIterations == 200
MediumIterations == 100000
HardIterations == 10000

\* a budget of no iterations at every difficulty
NoIterations(prog, choice) == 0

mctsIterationsForDifficulty(prog, choice) ==
    IF prog = "part_001"
    THEN IF choice = "H" THEN HardIterations ELSE 0
    ELSE IF choice = "E" THEN EasyIterations
         ELSE IF choice = "M" THEN MediumIterations
         ELSE 0

\* toupper on the characters the menus are given
toupper(c) ==
    CASE c = "e" -> "E" [] c = "m" -> "M" [] c = "h" -> "H" [] c = "r" -> "R"
      [] c = "i" -> "I" [] c = "y" -> "Y" [] c = "n" -> "N" [] OTHER -> c

\* what the user may type at a menu
MenuInputs == {"1", "2", "3", "E", "M", "H", "R", "I", "h", "i", "Y", "y", "N", "?"}

\* the integers the user may type for a row or a column
CoordInputs == 0..(BOARD_SIZE + 1)

\* the free cells a human turn may take
HumanCells ==
    LET fs == freeSpaces(board)
    IN IF chosenMode = "2" /\ aiChoice = MinimaxTag(program)
       THEN {fs[n] : n \in 1..Len(fs)}
       ELSE {fs[n] : n \in 1..Min(MaxChoice, Len(fs))}

Init ==
    /\ program \in Programs
    /\ pc = "modeMenu"
    /\ board = EmptyBoard
    /\ playerMoves = <<>>
    /\ computerMoves = <<>>
    /\ chosenMode = EMPTY
    /\ aiChoice = EMPTY
    /\ currentPlayer = PLAYER
    /\ winner = EMPTY
    /\ start = EmptyBoard
    /\ bestMove = NoMove
    /\ bestScore = 0
    /\ side = FALSE
    /\ tree = <<>>
    /\ iterations = 0
    /\ iter = 0
    /\ count = 0
    /\ curAlpha = INT_MIN
    /\ curBeta = INT_MAX
    /\ curCell = 0
    /\ curDepth = 0
    /\ lastNode = NULL
    /\ lastResult = 0
    /\ tempBoard = EmptyBoard
    /\ simPlayer = EMPTY

\* the mode menu: 1, 2 or 3, anything else is asked again
SelectMode ==
    /\ pc = "modeMenu"
    /\ \E c \in MenuInputs :
          IF c \notin {"1", "2", "3"}
          THEN UNCHANGED <<pc, chosenMode, aiChoice>>
          ELSE /\ chosenMode' = c
               /\ aiChoice' = EMPTY
               /\ pc' = IF c = "3" THEN "exit"
                        ELSE IF c = "2" THEN "difficultyMenu"
                        ELSE "newGame"
    /\ UNCHANGED <<program, board, playerMoves, computerMoves, currentPlayer,
                   winner, start, bestMove, bestScore, side, tree, iterations, iter,
                   count, curAlpha, curBeta, curCell, curDepth,
                   lastNode, lastResult, tempBoard, simPlayer>>

\* selectComputerMode / selectComputerDifficulty
SelectDifficulty ==
    /\ pc = "difficultyMenu"
    /\ \E c \in MenuInputs :
          IF toupper(c) \in Difficulties(program)
          THEN aiChoice' = toupper(c) /\ pc' = "newGame"
          ELSE UNCHANGED <<pc, aiChoice>>
    /\ UNCHANGED <<program, board, playerMoves, computerMoves, chosenMode,
                   currentPlayer, winner, start, bestMove, bestScore, side, tree,
                   iterations, iter, count, curAlpha, curBeta, curCell, curDepth,
                   lastNode, lastResult, tempBoard, simPlayer>>

\* a head of the replay loop that clears the histories and leaves the
\* board as the game before left it
StartGameKeepsBoard ==
    /\ pc = "newGame"
    /\ playerMoves' = <<>>
    /\ computerMoves' = <<>>
    /\ winner' = EMPTY
    /\ currentPlayer' = PLAYER
    /\ start' = EmptyBoard
    /\ bestMove' = NoMove
    /\ bestScore' = 0
    /\ pc' = "turn"
    /\ UNCHANGED <<program, board, chosenMode, aiChoice, side, tree, iterations,
                   iter, count, curAlpha, curBeta, curCell, curDepth,
                   lastNode, lastResult, tempBoard, simPlayer>>

\* the head of the replay loop: resetBoard(), both histories cleared, X to
\* move.  The locals of the searches of the game before are gone.
StartGame ==
    /\ pc = "newGame"
    /\ board' = EmptyBoard
    /\ playerMoves' = <<>>
    /\ computerMoves' = <<>>
    /\ winner' = EMPTY
    /\ currentPlayer' = PLAYER
    /\ start' = EmptyBoard
    /\ bestMove' = NoMove
    /\ bestScore' = 0
    /\ pc' = "turn"
    /\ UNCHANGED <<program, chosenMode, aiChoice, side, tree, iterations, iter,
                   count, curAlpha, curBeta, curCell, curDepth,
                   lastNode, lastResult, tempBoard, simPlayer>>

\* a game loop that plays on until the board is full
EndOfTurnWhenFull(b) ==
    /\ winner' = checkWinner(b)
    /\ currentPlayer' = Other(currentPlayer)
    /\ pc' = IF countFreeSpaces(b) > 0 THEN "turn" ELSE "gameOver"

\* the end of the body of the game loop once the move is made on board b:
\* winner = checkWinner(board), the turn passes if there is no winner, and
\* the loop goes on while winner == ' ' and a cell is free
EndOfTurn(b) ==
    /\ winner' = checkWinner(b)
    /\ currentPlayer' = IF checkWinner(b) = EMPTY THEN Other(currentPlayer)
                        ELSE currentPlayer
    /\ pc' = IF checkWinner(b) = EMPTY /\ countFreeSpaces(b) > 0 THEN "turn"
             ELSE "gameOver"

\* a turn of a human: playerMove() for X, player2Move() for O in mode 1.
\* handlePlayerInput asks again until the cell is on the board and free.
HumanTurn ==
    /\ pc = "turn"
    /\ chosenMode = "1" \/ currentPlayer = PLAYER
    /\ \E row \in CoordInputs, column \in CoordInputs :
          IF /\ row >= 1 /\ row <= BOARD_SIZE /\ column >= 1 /\ column <= BOARD_SIZE
             /\ <<row - 1, column - 1>> \in HumanCells
          THEN LET m == <<row - 1, column - 1>>
                   b == Put(board, CellOf(m), currentPlayer)
               IN /\ board' = b
                  /\ IF currentPlayer = PLAYER
                     THEN /\ playerMoves' = Append(playerMoves, m)
                          /\ UNCHANGED computerMoves
                     ELSE /\ computerMoves' = Append(computerMoves, m)
                          /\ UNCHANGED playerMoves
                  /\ EndOfTurn(b)
          ELSE UNCHANGED <<board, playerMoves, computerMoves, winner,
                           currentPlayer, pc>>
    /\ UNCHANGED <<program, chosenMode, aiChoice, start, bestMove, bestScore, side,
                   tree, iterations, iter, count, curAlpha, curBeta, curCell, curDepth,
                   lastNode, lastResult, tempBoard, simPlayer>>

\* a turn of the computer at the minimax difficulty: minimaxMove()
MinimaxTurn ==
    /\ pc = "turn"
    /\ chosenMode = "2" /\ currentPlayer = COMPUTER
    /\ aiChoice = MinimaxTag(program)
    /\ \E r \in {minimaxMove(board, computerMoves)} :
          /\ board' = r.board
          /\ computerMoves' = r.computerMoves
          /\ bestMove' = r.bestMove
          /\ bestScore' = r.bestScore
          /\ EndOfTurn(r.board)
    /\ start' = board
    /\ UNCHANGED <<program, playerMoves, chosenMode, aiChoice, side, tree,
                   iterations, iter, count, curAlpha, curBeta, curCell, curDepth,
                   lastNode, lastResult, tempBoard, simPlayer>>

\* a turn of the computer at the random difficulty of part_001
RandomTurn ==
    /\ pc = "turn"
    /\ chosenMode = "2" /\ currentPlayer = COMPUTER
    /\ program = "part_001" /\ aiChoice # "I" /\ aiChoice # "H"
    /\ \E randomMove \in getRandomComputerMove(board) :
          /\ bestMove' = randomMove
          /\ IF randomMove[1] # -1
             THEN /\ board' = Put(board, CellOf(randomMove), COMPUTER)
                  /\ computerMoves' = Append(computerMoves, randomMove)
                  /\ EndOfTurn(Put(board, CellOf(randomMove), COMPUTER))
             ELSE /\ UNCHANGED <<board, computerMoves>>
                  /\ EndOfTurn(board)
    /\ start' = board
    /\ UNCHANGED <<program, playerMoves, chosenMode, aiChoice, bestScore, side,
                   tree, iterations, iter, count, curAlpha, curBeta, curCell, curDepth,
                   lastNode, lastResult, tempBoard, simPlayer>>

\* a turn of the computer at an MCTS difficulty: mctsMove(sims) calls
\* runMCTS(board, sims), which allocates the root
MctsMoveCall ==
    /\ pc = "turn"
    /\ chosenMode = "2" /\ currentPlayer = COMPUTER
    /\ IF program = "part_001" THEN aiChoice = "H" ELSE aiChoice # "H"
    /\ iterations' = mctsIterationsForDifficulty(program, aiChoice)
    /\ iter' = 0
    /\ tree' = <<MCTSNode(board, NULL, NoMove, COMPUTER)>>
    /\ start' = board
    /\ pc' = "mctsMove"
    /\ UNCHANGED <<program, board, playerMoves, computerMoves, chosenMode, aiChoice,
                   currentPlayer, winner, bestMove, bestScore, side, count,
                   curAlpha, curBeta, curCell, curDepth,
                   lastNode, lastResult, tempBoard, simPlayer>>

\* runMCTS returns to mctsMove, which places the move; the game loop goes on
MctsMoveReturn ==
    /\ pc = "mctsMove"
    /\ ~(iter < iterations /\ iter < MaxGameIter)
    /\ LET bestChild == bestChildOf(tree)
           move == IF bestChild # NULL THEN tree[bestChild].lastMove ELSE NoMove
       IN /\ bestMove' = move
          /\ IF move[1] # -1
             THEN /\ board' = Put(board, CellOf(move), COMPUTER)
                  /\ computerMoves' = Append(computerMoves, move)
                  /\ EndOfTurn(Put(board, CellOf(move), COMPUTER))
             ELSE /\ UNCHANGED <<board, computerMoves>>
                  /\ EndOfTurn(board)
    /\ tree' = <<>>
    /\ lastNode' = NULL
    /\ lastResult' = 0
    /\ UNCHANGED <<program, playerMoves, chosenMode, aiChoice, start, bestScore,
                   side, iterations, iter, count, curAlpha, curBeta, curCell,
                   curDepth, tempBoard, simPlayer>>

\* "Do you want to play again in the current mode? (Y/N)": Y (TicTacToe.cpp:
\* Y or y; part_001: toupper) plays again, anything else goes back to the
\* mode menu
PlayAgain ==
    /\ pc = "gameOver"
    /\ \E playAgain \in MenuInputs :
          pc' = IF playAgain = "Y" \/ playAgain = "y" THEN "newGame" ELSE "modeMenu"
    /\ UNCHANGED <<program, board, playerMoves, computerMoves, chosenMode, aiChoice,
                   currentPlayer, winner, start, bestMove, bestScore, side, tree,
                   iterations, iter, count, curAlpha, curBeta, curCell, curDepth,
                   lastNode, lastResult, tempBoard, simPlayer>>

Next ==
    \/ SelectMode
    \/ SelectDifficulty
    \/ StartGame
    \/ HumanTurn
    \/ MinimaxTurn
    \/ RandomTurn
    \/ MctsMoveCall
    \/ Iterate
    \/ MctsMoveReturn
    \/ PlayAgain

Spec == Init /\ [][Next]_vars

(***************************************************************************)
(* Properties of the searches                                              *)
(***************************************************************************)
FreeCells(b) == {k \in Cells : b[k] = EMPTY}

\* The game-theoretic value of board a[1] with O (a[2] = TRUE) or X to move,
\* by plain minimax without pruning: +10 when O wins, -10 when X wins, 0 for
\* a draw.
PlainValue[a \in Boards \X BOOLEAN] ==
    LET w == checkWinner(a[1])
    IN IF w = COMPUTER THEN 10
       ELSE IF w = PLAYER THEN -10
       ELSE IF w = DRAW THEN 0
       ELSE LET vals == {PlainValue[<<Put(a[1], k, IF a[2] THEN COMPUTER ELSE PLAYER),
                                      ~a[2]>>] : k \in FreeCells(a[1])}
            IN IF a[2]
               THEN IF 10 \in vals THEN 10 ELSE IF 0 \in vals THEN 0 ELSE -10
               ELSE IF -10 \in vals THEN -10 ELSE IF 0 \in vals THEN 0 ELSE 10

\* the value for O of O playing cell k on board b
ValueOfCell(b, k) == PlainValue[<<Put(b, k, COMPUTER), FALSE>>]

\* C1: in a Player-vs-Computer game at the minimax difficulty (X moves first,
\* O replies through minimaxMove), whatever legal cells the human enters, no
\* board of the game has checkWinner = 'X' and the recorded winner is never X.
C1_MinimaxNeverLoses ==
    (chosenMode = "2" /\ aiChoice = MinimaxTag(program) /\ pc \in {"turn", "gameOver"})
    => (checkWinner(board) # PLAYER /\ winner # PLAYER)

\* a game at the minimax difficulty that minimaxMove has won after four
\* human moves
C1_Witness ==
    /\ pc = "gameOver"
    /\ chosenMode = "2"
    /\ aiChoice = MinimaxTag(program)
    /\ winner = COMPUTER
    /\ Len(playerMoves) = 4
    /\ bestMove = computerMoves[Len(computerMoves)]

\* C2: on every Ongoing board with at most 4 free cells and O to move, the
\* cell minimaxMove plays is a free cell whose plain-minimax value is the
\* maximum over all free cells (so never a forced loss when a draw or a win
\* is available).
C2_DriverPlaysMaximalCell ==
    (pc = "minimaxMoveReturned" /\ checkWinner(start) = EMPTY
        /\ countFreeSpaces(start) <= 4)
    => /\ bestMove # NoMove
       /\ start[CellOf(bestMove)] = EMPTY
       /\ \A k \in FreeCells(start) :
             ValueOfCell(start, CellOf(bestMove)) >= ValueOfCell(start, k)

\* a board with 4 free cells where some cell loses by force and the played
\* cell holds the draw
C2_Witness ==
    /\ pc = "minimaxMoveReturned"
    /\ checkWinner(start) = EMPTY
    /\ countFreeSpaces(start) = 4
    /\ bestMove # NoMove
    /\ ValueOfCell(start, CellOf(bestMove)) = 0
    /\ \E k \in FreeCells(start) : ValueOfCell(start, k) = -10

\* the board X X _ / O O _ / _ _ _
WinInOneBoard ==
    [k \in Cells |->
        IF k \in {At(0, 0), At(0, 1)} THEN PLAYER
        ELSE IF k \in {At(1, 0), At(1, 1)} THEN COMPUTER
        ELSE EMPTY]

\* C3: on the board X X _ / O O _ / _ _ _ with O to move, minimaxMove
\* selects cell (1,2), completing row 1 and winning immediately.
C3_SelectsImmediateWin ==
    (pc = "minimaxMoveReturned" /\ start = WinInOneBoard) => bestMove = <<1, 2>>

\* C4: on every board with at most 6 free cells and either side to move,
\* minimax with the full window (INT_MIN, INT_MAX) returns the value of
\* plain minimax without pruning.
C4_AlphaBetaEqualsPlain ==
    (pc = "minimaxReturned" /\ countFreeSpaces(start) <= 6)
    => bestScore = PlainValue[<<start, side>>]

\* an Ongoing board with 6 free cells, O to move, searched to a draw
C4_Witness ==
    /\ pc = "minimaxReturned"
    /\ countFreeSpaces(start) = 6
    /\ checkWinner(start) = EMPTY
    /\ side = TRUE
    /\ bestScore = 0

\* C5: when minimax returns (terminal case, end of the loop or cutoff) every
\* cell of the board equals its value before the call; runMCTS and the
\* random selector never write to the board; after minimaxMove the board
\* differs from the board before it at most in the cell of the final
\* placement.
C5_SearchLeavesBoard ==
    /\ pc \in {"minimaxReturned", "randomReturned", "runMCTS", "runMCTSReturned"}
          => board = start
    /\ pc = "minimaxMoveReturned"
          => \A k \in Cells :
                board[k] # start[k] => (bestMove # NoMove /\ k = CellOf(bestMove))

\* minimax has returned from a search over five or more free cells
C5_Witness ==
    /\ pc = "minimaxReturned"
    /\ checkWinner(start) = EMPTY
    /\ countFreeSpaces(start) >= 5
    /\ board = start

\* C6: on the empty board with the computer to move first the best score of
\* the minimax driver is 0 and the cell it chooses has plain-minimax value 0.
C6_EmptyBoardDraw ==
    (pc = "minimaxMoveReturned" /\ start = EmptyBoard)
    => /\ bestScore = 0
       /\ bestMove # NoMove
       /\ ValueOfCell(EmptyBoard, CellOf(bestMove)) = 0

\* minimaxMove has moved first on the empty board
C6_Witness ==
    /\ pc = "minimaxMoveReturned"
    /\ start = EmptyBoard
    /\ bestMove # NoMove
    /\ board = Put(EmptyBoard, CellOf(bestMove), COMPUTER)

\* C7: a search (random selector, minimax driver or MCTS) invoked on a board
\* that is won, drawn or full returns the sentinel (-1,-1) and places no
\* mark.
C7_TerminalBoardNoMove ==
    (checkWinner(start) # EMPTY
        /\ pc \in {"randomReturned", "minimaxMoveReturned", "runMCTSReturned"})
    => (bestMove = NoMove /\ board = start)

\* C8: runMCTS returns the sentinel exactly when the root ends with no
\* children, which is exactly when iterations <= 0 or the root board is won,
\* drawn or full; otherwise it returns the lastMove of a root child.
C8_SentinelIffNoChildren ==
    [][(pc = "runMCTS" /\ pc' = "runMCTSReturned")
        => LET kids == tree[1].children
           IN /\ (bestMove' = NoMove) <=> (kids = <<>>)
              /\ (kids = <<>>) <=> (iterations <= 0 \/ checkWinner(start) # EMPTY)
              /\ kids # <<>>
                    => \E i \in 1..Len(kids) : tree[kids[i]].lastMove = bestMove']_vars

\* runMCTS has run iterations on a board that is won but not full and has
\* returned the sentinel
C8_Witness ==
    /\ pc = "runMCTSReturned"
    /\ iterations > 0
    /\ checkWinner(start) # EMPTY
    /\ countFreeSpaces(start) > 0
    /\ bestMove = NoMove

\* C9: the minimax driver ends with bestMove = (-1,-1) if and only if the
\* board has no free cell; on every board with a free cell it selects a free
\* cell.
C9_NoMoveIffNoFreeCell ==
    pc = "minimaxMoveReturned"
    => /\ (bestMove = NoMove) <=> (countFreeSpaces(start) = 0)
       /\ countFreeSpaces(start) > 0 => start[CellOf(bestMove)] = EMPTY

\* every free cell loses by force and the driver still selects one
C9_Witness ==
    /\ pc = "minimaxMoveReturned"
    /\ checkWinner(start) = EMPTY
    /\ bestScore = -10
    /\ bestMove # NoMove
    /\ start[CellOf(bestMove)] = EMPTY

\* C10: after k iterations of runMCTS from a fresh tree the visit count N of
\* the root is exactly k, on every start board (terminal ones too) and for
\* every resolution of the random choices.
C10_RootVisitsEqualIterations ==
    pc = "runMCTS" => tree[1].N = iter

\* three iterations done on an Ongoing board
C10_Witness ==
    /\ pc = "runMCTS"
    /\ checkWinner(start) = EMPTY
    /\ iter = 3
    /\ tree[1].N = 3
    /\ Len(tree) = 4

\* C11: when the root has at least one child, runMCTS returns the lastMove
\* of the root child with the largest visit count N, and among the children
\* with that N the one created first (the first in root->children).
C11_MostVisitedFirstChild ==
    [][(pc = "runMCTS" /\ pc' = "runMCTSReturned" /\ tree[1].children # <<>>)
        => LET kids == tree[1].children
           IN \E i \in 1..Len(kids) :
                 /\ bestMove' = tree[kids[i]].lastMove
                 /\ \A j \in 1..Len(kids) : tree[kids[j]].N <= tree[kids[i]].N
                 /\ \A j \in 1..(i - 1) : tree[kids[j]].N < tree[kids[i]].N]_vars

\* part_001 after two iterations on a board with two free cells: both root
\* children have one visit, the first one created (the last free cell, not a
\* win for O, W = 0) is returned although the second one (a win for O,
\* W = 1) has the greater win rate
C11_Witness ==
    /\ pc = "runMCTSReturned"
    /\ program = "part_001"
    /\ iterations = 2
    /\ checkWinner(start) = EMPTY
    /\ countFreeSpaces(start) = 2
    /\ bestMove = freeSpaces(start)[2]
    /\ checkWinner(Put(start, CellOf(freeSpaces(start)[1]), COMPUTER)) = COMPUTER
    /\ checkWinner(Put(start, CellOf(freeSpaces(start)[2]), COMPUTER)) # COMPUTER

\* C12: when the search of a computer turn yields a move (r,c), the facade
\* (minimaxMove, mctsMove, the random branch of main) writes COMPUTER to
\* board[r][c], that cell was empty before, no other cell changes, (r,c) is
\* appended to computerMoves and playerMoves is unchanged; when the search
\* yields the sentinel, the board and both histories are unchanged.
C12_FacadeAppliesMove ==
    [][((pc = "call" /\ pc' = "minimaxMoveReturned") \/ pc' = "moveApplied")
        => IF bestMove' # NoMove
           THEN /\ bestMove'[1] \in 0..(BOARD_SIZE - 1)
                /\ bestMove'[2] \in 0..(BOARD_SIZE - 1)
                /\ board[CellOf(bestMove')] = EMPTY
                /\ board' = [board EXCEPT ![CellOf(bestMove')] = COMPUTER]
                /\ computerMoves' = computerMoves \o <<bestMove'>>
                /\ playerMoves' = playerMoves
           ELSE /\ board' = board
                /\ computerMoves' = computerMoves
                /\ playerMoves' = playerMoves]_vars

\* mctsMove has placed and logged the move of a runMCTS with iterations
C12_Witness ==
    /\ pc = "moveApplied"
    /\ iterations > 0
    /\ bestMove # NoMove
    /\ start[CellOf(bestMove)] = EMPTY
    /\ board = Put(start, CellOf(bestMove), COMPUTER)
    /\ computerMoves = <<bestMove>>

\* C13: no board of a game (X starts, the sides alternate, play stops at the
\* first result other than Ongoing) holds a complete line of X and a
\* complete line of O at the same time: all complete lines carry the same
\* mark, so the result of checkWinner does not depend on its scan order.
C13_NoTwoWinners ==
    \A i \in 1..Len(Lines), j \in 1..Len(Lines) :
        (Line(board, Lines[i]) /\ Line(board, Lines[j]))
        => board[Lines[i][1]] = board[Lines[j][1]]

\* a game of two humans that O has won on a line scanned after a line that
\* holds marks of X
C13_Witness ==
    /\ pc = "gameOver"
    /\ chosenMode = "1"
    /\ winner = COMPUTER
    /\ Len(playerMoves) = 4
    /\ \E i \in 1..Len(Lines) : \E j \in 1..(i - 1) :
          /\ Line(board, Lines[i])
          /\ \E n \in 1..3 : board[Lines[j][n]] = PLAYER

\* the rows, the columns and the two diagonals of the board, as sets of cells
LineSets ==
    {{At(i, 0), At(i, 1), At(i, 2)} : i \in 0..2}
    \cup {{At(0, j), At(1, j), At(2, j)} : j \in 0..2}
    \cup {{At(0, 0), At(1, 1), At(2, 2)}, {At(0, 2), At(1, 1), At(2, 0)}}

\* side c holds every cell of some row, column or diagonal of b
HasLine(b, c) == \E l \in LineSets : \A k \in l : b[k] = c

\* C14: on every 3x3 board over {' ', X, O} checkWinner returns exactly one
\* of X, O, 'D', ' '; it returns the mark of a side iff a row, a column or a
\* diagonal holds three equal non-empty marks, and then a side that holds
\* such a line (also on a full board); without a line it returns 'D' iff no
\* cell is empty and ' ' iff a cell is empty.
C14_CheckWinnerOutcome ==
    pc = "checkWinnerReturned"
    => /\ winner \in {PLAYER, COMPUTER, DRAW, EMPTY}
       /\ (winner \in {PLAYER, COMPUTER})
             <=> (HasLine(board, PLAYER) \/ HasLine(board, COMPUTER))
       /\ winner \in {PLAYER, COMPUTER} => HasLine(board, winner)
       /\ (winner = DRAW)
             <=> (~HasLine(board, PLAYER) /\ ~HasLine(board, COMPUTER)
                    /\ \A k \in Cells : board[k] # EMPTY)
       /\ (winner = EMPTY)
             <=> (~HasLine(board, PLAYER) /\ ~HasLine(board, COMPUTER)
                    /\ \E k \in Cells : board[k] = EMPTY)

\* a full board with a line of O is reported as won by O
C14_Witness ==
    /\ pc = "checkWinnerReturned"
    /\ \A k \in Cells : board[k] # EMPTY
    /\ HasLine(board, COMPUTER)
    /\ ~HasLine(board, PLAYER)
    /\ winner = COMPUTER

\* C15: on every board getRandomComputerMove returns the sentinel (-1,-1)
\* iff the board has no empty cell; otherwise the move it returns is an
\* empty cell with both coordinates in [0,3), and every empty cell of the
\* board is a move it can return.
C15_RandomMoveIsAnyFreeCell ==
    /\ pc = "randomReturned"
          => /\ (bestMove = NoMove) <=> (\A k \in Cells : board[k] # EMPTY)
             /\ bestMove # NoMove
                   => /\ bestMove[1] \in 0..(BOARD_SIZE - 1)
                      /\ bestMove[2] \in 0..(BOARD_SIZE - 1)
                      /\ board[CellOf(bestMove)] = EMPTY
    /\ (pc = "call" /\ program = "part_001")
          => \A k \in Cells :
                board[k] = EMPTY => ENABLED (CallRandom /\ bestMove' = MoveOf(k))

\* the selector has returned the third free cell of a board
C15_Witness ==
    /\ pc = "randomReturned"
    /\ countFreeSpaces(board) >= 3
    /\ bestMove = freeSpaces(board)[3]

\* the cells named by the moves of the history h
CellsOf(h) == {CellOf(h[n]) : n \in 1..Len(h)}

\* h2 is h, or h with one move appended
GrowsByAppend(h, h2) == h2 = h \/ (Len(h2) = Len(h) + 1 /\ SubSeq(h2, 1, Len(h)) = h)

\* C16: within a game (every step but the reset at the head of a new game)
\* each history stays as it is or gets one move appended; at every turn
\* boundary playerMoves names exactly the cells holding X and computerMoves
\* exactly the cells holding O, without duplicates.
C16_HistoriesMatchBoard ==
    /\ [](pc \in {"turn", "gameOver"}
            => /\ CellsOf(playerMoves) = {k \in Cells : board[k] = PLAYER}
               /\ CellsOf(computerMoves) = {k \in Cells : board[k] = COMPUTER}
               /\ Cardinality(CellsOf(playerMoves)) = Len(playerMoves)
               /\ Cardinality(CellsOf(computerMoves)) = Len(computerMoves))
    /\ [][pc # "newGame"
            => /\ GrowsByAppend(playerMoves, playerMoves')
               /\ GrowsByAppend(computerMoves, computerMoves')]_vars

\* a drawn game against an MCTS difficulty: five moves of X, four of O
C16_Witness ==
    /\ pc = "gameOver"
    /\ chosenMode = "2"
    /\ aiChoice # MinimaxTag(program)
    /\ iterations > 0
    /\ winner = DRAW
    /\ Len(playerMoves) = 5
    /\ Len(computerMoves) = 4
    /\ computerMoves[4] = bestMove

\* the tags of the MCTS difficulties and of the random difficulty
IsMctsTag ==
    \/ program = "TicTacToe" /\ aiChoice \in {"E", "M"}
    \/ program = "part_001" /\ aiChoice = "H"

IsRandomTag == program = "part_001" /\ aiChoice = "R"

Occupied(b) == Cardinality({k \in Cells : b[k] \in {PLAYER, COMPUTER}})

\* C18: on every board the number of free cells that countFreeSpaces /
\* checkFreeSpaces returns, the number of moves getRandomComputerMove can
\* return from its free-cell list, and the length of untriedMoves of a fresh
\* MCTS node, each plus the number of occupied cells, equal 9.
C18_FreePlusOccupied ==
    /\ pc = "countReturned" => count + Occupied(board) = 9
    /\ pc = "nodeMade" => Len(tree[1].untriedMoves) + Occupied(board) = 9
    /\ (pc = "call" /\ program = "part_001")
          => Cardinality({k \in Cells : ENABLED (CallRandom /\ bestMove' = MoveOf(k))})
                + Occupied(board) = 9

\* four free cells counted on a board with five marks
C18_Witness ==
    /\ pc = "countReturned"
    /\ count = 4
    /\ Occupied(board) = 5
    /\ Len(freeSpaces(board)) = 4

\* What the call of minimax at point a (as in minimaxFrom) returns if its
\* loop goes on over all remaining free cells without the early return; the
\* recursive calls are the calls of the code.
minimaxGoOn[a \in MinimaxPoints] ==
    IF a[6] = CellCount + 1 THEN a[7]
    ELSE LET r == minimaxFrom[<<Put(a[1], a[6], IF a[3] THEN COMPUTER ELSE PLAYER),
                                a[2] + 1, ~a[3], a[4], a[5], 0, 0>>]
             b2 == Undo(r.board, a[6])
         IN IF a[3]
            THEN minimaxGoOn[<<b2, a[2], TRUE, Max(a[4], r.score), a[5],
                               NextFree(b2, a[6] + 1), Max(a[7], r.score)>>]
            ELSE minimaxGoOn[<<b2, a[2], FALSE, a[4], Min(a[5], r.score),
                               NextFree(b2, a[6] + 1), Min(a[7], r.score)>>]

\* C19 (as claimed): whenever a call of minimax made during a search returns
\* early on beta <= alpha, the value it returns is the value it would return
\* if it went on to examine all remaining free cells.
C19_EarlyReturnSameValue ==
    pc = "cutoffReturn"
    => bestScore = minimaxGoOn[<<board, curDepth, side, curAlpha, curBeta,
                                 NextFree(board, curCell + 1), bestScore>>]

\* C19 (amended): whenever a call of minimax made during a search returns
\* early on beta <= alpha, the value r it returns bounds the plain-minimax
\* value v of its board from the side of the cutoff: beta <= r <= v in a
\* maximizing call, v <= r <= alpha in a minimizing call.
C19_EarlyReturnIsBound ==
    pc = "cutoffReturn"
    => IF side
       THEN curBeta <= bestScore /\ bestScore <= PlainValue[<<board, TRUE>>]
       ELSE PlainValue[<<board, FALSE>>] <= bestScore /\ bestScore <= curAlpha

\* a minimizing call has returned 0 early on alpha = 0 with free cells left
\* to try, and the value of its board is -10
C19_Witness ==
    /\ pc = "cutoffReturn"
    /\ ~side
    /\ curAlpha = 0
    /\ bestScore = 0
    /\ NextFree(board, curCell + 1) <= CellCount
    /\ PlainValue[<<board, FALSE>>] = -10

\* C20: for every board that is not terminal, either side to move and every
\* window alpha < beta, with v the plain-minimax value of the board:
\* minimax returns v if alpha < v < beta, some r with v <= r <= alpha if
\* v <= alpha, and some r with beta <= r <= v if v >= beta.
C20_FailSoftBounds ==
    (pc = "windowReturned" /\ checkWinner(start) = EMPTY)
    => LET v == PlainValue[<<start, side>>]
       IN /\ (curAlpha < v /\ v < curBeta) => bestScore = v
          /\ v <= curAlpha => (v <= bestScore /\ bestScore <= curAlpha)
          /\ v >= curBeta => (curBeta <= bestScore /\ bestScore <= v)

\* a call with the window (-10, 0) on a board of value 10 has returned 10,
\* above beta
C20_Witness ==
    /\ pc = "windowReturned"
    /\ checkWinner(start) = EMPTY
    /\ countFreeSpaces(start) = 5
    /\ curAlpha = -10
    /\ curBeta = 0
    /\ PlainValue[<<start, side>>] = 10
    /\ bestScore = 10

\* the score the driver gets for cell k of board b: board[i][j] = COMPUTER,
\* then minimax(board, 0, false, INT_MIN, INT_MAX)
DriverScore(b, k) == minimax(Put(b, k, COMPUTER), 0, FALSE, INT_MIN, INT_MAX).score

\* C21: on every board with a free cell the cell minimaxMove chooses is the
\* first free cell in row-major order among the free cells whose score (the
\* value minimax returns for O placed there) is the greatest, and bestScore
\* is that score.
C21_FirstMaximalCell ==
    (pc = "minimaxMoveReturned" /\ countFreeSpaces(start) > 0)
    => \E k \in FreeCells(start) :
          /\ bestMove = MoveOf(k)
          /\ bestScore = DriverScore(start, k)
          /\ \A j \in FreeCells(start) : DriverScore(start, j) <= DriverScore(start, k)
          /\ \A j \in FreeCells(start) : j < k => DriverScore(start, j) < DriverScore(start, k)

\* the chosen cell is not the first free cell (which scores less), and a
\* later free cell has the same score as the chosen one
C21_Witness ==
    /\ pc = "minimaxMoveReturned"
    /\ checkWinner(start) = EMPTY
    /\ bestMove # NoMove
    /\ \E j \in FreeCells(start) :
          j < CellOf(bestMove) /\ DriverScore(start, j) < bestScore
    /\ \E j \in FreeCells(start) :
          j > CellOf(bestMove) /\ DriverScore(start, j) = bestScore

\* O to move on b can complete a line with one placement
WinInOne(b) == \E k \in FreeCells(b) : checkWinner(Put(b, k, COMPUTER)) = COMPUTER

\* C22: for every board, side to move, window alpha < beta and depth
\* argument, minimax returns -10, 0 or +10 (never INT_MIN or INT_MAX) and
\* the value is the one it returns with depth 0; with the full window a win
\* for O in one move and a forced win for O in several moves both score +10.
C22_ScoreSetDepthIndependent ==
    pc = "windowReturned"
    => /\ bestScore \in {-10, 0, 10}
       /\ bestScore = minimax(start, 0, side, curAlpha, curBeta).score
       /\ (side /\ curAlpha = INT_MIN /\ curBeta = INT_MAX
             /\ checkWinner(start) = EMPTY /\ PlainValue[<<start, TRUE>>] = 10)
          => bestScore = 10

\* called with depth 2 and the full window on a board where O wins by force
\* but not in one move, minimax has returned +10
C22_Witness ==
    /\ pc = "windowReturned"
    /\ curDepth = 2
    /\ side
    /\ curAlpha = INT_MIN
    /\ curBeta = INT_MAX
    /\ checkWinner(start) = EMPTY
    /\ ~WinInOne(start)
    /\ PlainValue[<<start, TRUE>>] = 10
    /\ bestScore = 10

\* the ids of the nodes of the tree, and the children of node n as a set
Nodes == 1..Len(tree)
Kids(n) == {tree[n].children[i] : i \in 1..Len(tree[n].children)}

\* C23: between the iterations of runMCTS (the tree the next selection phase
\* reads), no child of a node that still has an untried move has been
\* visited more than once, and every child of a node at which the selection
\* loop applies selectChild has N >= 1.
C23_ChildrenTriedBeforeRevisit ==
    pc = "runMCTS"
    => \A n \in Nodes :
          /\ tree[n].untriedMoves # <<>> => \A c \in Kids(n) : tree[c].N <= 1
          /\ SelectionGoesOn(program, tree, n) => \A c \in Kids(n) : tree[c].N >= 1

\* a run on a board with two free cells: selectChild was applied at the root
\* (both children, each visited once by its expansion, have more visits now)
\* and at a child of the root, whose own child has been visited again
C23_Witness ==
    /\ pc = "runMCTS"
    /\ tree[1].untriedMoves = <<>>
    /\ Len(tree[1].children) = 2
    /\ \A c \in Kids(1) : tree[c].N >= 2
    /\ \E c \in Kids(1) :
          /\ SelectionGoesOn(program, tree, c)
          /\ \E g \in Kids(c) : tree[g].N >= 2

\* P holds exactly node m of tree t and the nodes above it up to the root:
\* it holds m and the root, the parent of each of its nodes but the root,
\* and a child of each of its nodes but m
IsPathToRoot(t, P, m) ==
    /\ m \in P
    /\ 1 \in P
    /\ \A n \in P : n # 1 => t[n].parent \in P
    /\ \A n \in P : n # m => \E c \in P : t[c].parent = n

\* N and W of node n before the backpropagation of an iteration: those of
\* the tree before the iteration, 0 for the node the iteration has allocated
NBefore(n) == IF n <= Len(tree) THEN tree[n].N ELSE 0
WBefore(n) == IF n <= Len(tree) THEN tree[n].W ELSE 0

\* C24: the backpropagate(node, result) call of an iteration adds exactly 1
\* to N of exactly the nodes on the path from node up to the root, adds 1 to
\* W of those nodes iff result = +10 and 0 for result -10 or 0, and leaves N
\* and W of every other node as they were.
C24_BackpropagatePath ==
    [][(pc = "runMCTS" /\ pc' = "runMCTS")
        => LET P == {n \in 1..Len(tree') : tree'[n].N # NBefore(n)}
           IN /\ lastResult' \in {-10, 0, 10}
              /\ IsPathToRoot(tree', P, lastNode')
              /\ \A n \in P :
                    /\ tree'[n].N = NBefore(n) + 1
                    /\ tree'[n].W = WBefore(n) + (IF lastResult' = 10 THEN 1 ELSE 0)
              /\ \A n \in (1..Len(tree')) \ P : tree'[n].W = WBefore(n)]_vars

\* a win of X was backpropagated from a grandchild of the root: its visit
\* is counted and its W stays 0, while the other child of the root, off the
\* path, keeps the visits and wins of earlier iterations
C24_Witness ==
    /\ pc = "runMCTS"
    /\ lastNode # NULL
    /\ lastResult = -10
    /\ tree[lastNode].parent # NULL
    /\ tree[tree[lastNode].parent].parent = 1
    /\ tree[lastNode].N = 1
    /\ tree[lastNode].W = 0
    /\ \E c \in Kids(1) :
          c # tree[lastNode].parent /\ tree[c].N >= 2 /\ tree[c].W = tree[c].N

\* C25: the expansion phase of an iteration, entered at a node p with an
\* untried move and an Ongoing board, removes exactly one move m from the
\* untriedMoves of p and allocates exactly one node, appended to the
\* children of p: its lastMove is m, its board is the board of p with the
\* playerToMove of p on cell m (empty on the board of p), its playerToMove
\* is the other side, its N and W are 0 and it has no children; the board
\* and the other fields of p and every other node stay as they were.
C25_ExpansionAddsOneChild ==
    [][pc' = "expanded"
        => LET c == Len(tree')
               p == tree'[c].parent
               m == tree'[c].lastMove
           IN /\ Len(tree') = Len(tree) + 1
              /\ p \in 1..Len(tree)
              /\ tree[p].untriedMoves # <<>>
              /\ checkWinner(tree[p].boardState) = EMPTY
              /\ \E i \in 1..Len(tree[p].untriedMoves) :
                    /\ tree[p].untriedMoves[i] = m
                    /\ tree'[p].untriedMoves
                          = [n \in 1..(Len(tree[p].untriedMoves) - 1) |->
                                tree[p].untriedMoves[IF n < i THEN n ELSE n + 1]]
              /\ tree'[p].children = tree[p].children \o <<c>>
              /\ tree[p].boardState[CellOf(m)] = EMPTY
              /\ tree'[c].boardState
                    = [tree[p].boardState EXCEPT ![CellOf(m)] = tree[p].playerToMove]
              /\ tree'[c].playerToMove
                    = (IF tree[p].playerToMove = PLAYER THEN COMPUTER ELSE PLAYER)
              /\ tree'[c].N = 0
              /\ tree'[c].W = 0
              /\ tree'[c].children = <<>>
              /\ tree'[p] = [tree[p] EXCEPT !.untriedMoves = tree'[p].untriedMoves,
                                            !.children = tree'[p].children]
              /\ \A n \in 1..Len(tree) : n # p => tree'[n] = tree[n]]_vars

\* a child of the root, where X is to move, has been expanded after earlier
\* iterations: the new node has O to move and no visits
C25_Witness ==
    /\ pc = "expanded"
    /\ tree[1].N >= 2
    /\ tree[lastNode].parent # 1
    /\ tree[tree[lastNode].parent].playerToMove = PLAYER
    /\ tree[lastNode].playerToMove = COMPUTER
    /\ tree[lastNode].N = 0
    /\ tree[tree[lastNode].parent].untriedMoves = <<>>

\* the cells where the rollout's tempBoard differs from the board it was
\* given
Placed == {k \in Cells : tempBoard[k] # tree[lastNode].boardState[k]}

\* C26: a rollout from an Ongoing board b with side p to move never changes
\* b; every position of the rollout is b with marks added on cells that
\* were empty, the marks of p and of the other side alternating from p, at
\* most as many as b has free cells; a mark is only placed on a position
\* whose checkWinner is ' ', one mark at a time on an empty cell by the side
\* whose turn it is; and the rollout returns only from a position whose
\* checkWinner is not ' ', with +10 / -10 / 0 iff that position is a win of
\* O / a win of X / a draw.
C26_RolloutPlaysToTheEnd ==
    /\ [](pc \in {"simulateLoop", "simulateReturned"}
            => LET b == tree[lastNode].boardState
                   p == tree[lastNode].playerToMove
                   q == IF p = PLAYER THEN COMPUTER ELSE PLAYER
                   n == Cardinality(Placed)
               IN /\ b = start
                  /\ tree = <<MCTSNode(start, NULL, NoMove, p)>>
                  /\ \A k \in Placed : b[k] = EMPTY /\ tempBoard[k] \in {p, q}
                  /\ Cardinality({k \in Placed : tempBoard[k] = p}) = (n + 1) \div 2
                  /\ Cardinality({k \in Placed : tempBoard[k] = q}) = n \div 2
                  /\ n <= countFreeSpaces(b)
                  /\ simPlayer = (IF n % 2 = 0 THEN p ELSE q)
                  /\ pc = "simulateReturned"
                        => /\ checkWinner(tempBoard) # EMPTY
                           /\ lastResult \in {-10, 0, 10}
                           /\ lastResult = 10 <=> checkWinner(tempBoard) = COMPUTER
                           /\ lastResult = -10 <=> checkWinner(tempBoard) = PLAYER
                           /\ lastResult = 0 <=> checkWinner(tempBoard) = DRAW
                           /\ lastResult \in simulateRandomGame(b, p))
    /\ [][pc = "simulateLoop"
            => \/ /\ pc' = "simulateReturned"
                  /\ tempBoard' = tempBoard
               \/ /\ pc' = "simulateLoop"
                  /\ checkWinner(tempBoard) = EMPTY
                  /\ \E k \in Cells :
                        /\ tempBoard[k] = EMPTY
                        /\ tempBoard' = [tempBoard EXCEPT ![k] = simPlayer]]_vars

\* a rollout from a board with three free cells and X to move has placed
\* three marks (X, O, X) and returned a draw
C26_Witness ==
    /\ pc = "simulateReturned"
    /\ countFreeSpaces(start) = 3
    /\ tree[lastNode].playerToMove = PLAYER
    /\ Cardinality(Placed) = 3
    /\ Cardinality({k \in Placed : tempBoard[k] = COMPUTER}) = 1
    /\ lastResult = 0
    /\ simulateRandomGame(start, PLAYER) = {-10, 0, 10}

\* the sum of N over the children of node n
SumKidsN(n) ==
    LET kids == tree[n].children
        S[i \in 0..Len(kids)] == IF i = 0 THEN 0 ELSE S[i - 1] + tree[kids[i]].N
    IN S[Len(kids)]

\* C27: after every completed iteration of runMCTS every node has
\* 0 <= W <= N, every node but the root has N >= 1, a node with an Ongoing
\* board has N = 1 + (the sum of N over its children), or just that sum if
\* it is the root, and a node whose board is won or drawn has no children.
C27_VisitCountsAddUp ==
    pc = "runMCTS"
    => \A n \in Nodes :
          /\ 0 <= tree[n].W
          /\ tree[n].W <= tree[n].N
          /\ n # 1 => tree[n].N >= 1
          /\ checkWinner(tree[n].boardState) = EMPTY
                => tree[n].N = (IF n = 1 THEN 0 ELSE 1) + SumKidsN(n)
          /\ checkWinner(tree[n].boardState) # EMPTY => tree[n].children = <<>>

\* eight iterations on a board with two free cells: a child of the root
\* with an Ongoing board has passed on all its visits but the first to its
\* own child, and the other child of the root, whose board is won or drawn,
\* has been visited again and again and has no children
C27_Witness ==
    /\ pc = "runMCTS"
    /\ iter = 8
    /\ checkWinner(start) = EMPTY
    /\ \E c \in Kids(1) :
          /\ checkWinner(tree[c].boardState) = EMPTY
          /\ tree[c].N >= 2
          /\ SumKidsN(c) = tree[c].N - 1
    /\ \E c \in Kids(1) :
          /\ checkWinner(tree[c].boardState) # EMPTY
          /\ tree[c].N >= 3
          /\ tree[c].children = <<>>

\* the number of steps from node n up to the root
DepthOf(n) ==
    LET D[m \in 1..Len(tree)] == IF tree[m].parent = NULL THEN 0 ELSE 1 + D[tree[m].parent]
    IN D[n]

\* the lastMoves of the children of node n, and its untried moves
KidMoves(n) == {tree[c].lastMove : c \in Kids(n)}
UntriedSet(n) == {tree[n].untriedMoves[i] : i \in 1..Len(tree[n].untriedMoves)}

\* C28: at every point of a run of runMCTS (between iterations and after the
\* expansion phase of an iteration), for every node the number of children
\* plus the number of untried moves is the number of empty cells of its
\* board, the lastMoves of its children are pairwise distinct and none of
\* them is an untried move, its playerToMove is COMPUTER at even depth and
\* PLAYER at odd depth; the tree holds at most one node more than the
\* iterations begun, so never more than iterations + 1, and a step adds at
\* most one node.
C28_TreeShape ==
    /\ [](pc \in {"runMCTS", "expanded"}
            => /\ \A n \in Nodes :
                     /\ Len(tree[n].children) + Len(tree[n].untriedMoves)
                           = Cardinality({k \in Cells : tree[n].boardState[k] = EMPTY})
                     /\ Cardinality(KidMoves(n)) = Len(tree[n].children)
                     /\ Cardinality(UntriedSet(n)) = Len(tree[n].untriedMoves)
                     /\ KidMoves(n) \cap UntriedSet(n) = {}
                     /\ tree[n].playerToMove
                           = (IF DepthOf(n) % 2 = 0 THEN COMPUTER ELSE PLAYER)
               /\ Len(tree) <= iter + 1 + (IF pc = "expanded" THEN 1 ELSE 0)
               /\ Len(tree) <= iterations + 1)
    /\ [][pc = "runMCTS" /\ pc' \in {"runMCTS", "expanded"}
            => Len(tree') \in {Len(tree), Len(tree) + 1}]_vars

\* a full tree over a board with two free cells: the root, its two
\* children with X to move and a grandchild with O to move, just expanded
C28_Witness ==
    /\ pc = "expanded"
    /\ Len(tree) = 5
    /\ tree[1].untriedMoves = <<>>
    /\ Len(tree[1].children) = 2
    /\ DepthOf(lastNode) = 2
    /\ tree[lastNode].playerToMove = COMPUTER
    /\ tree[tree[lastNode].parent].playerToMove = PLAYER
    /\ tree[tree[lastNode].parent].untriedMoves = <<>>

\* C29: in a game against the computer, at every difficulty, every computer
\* turn that runs to its end starts on an Ongoing board, yields a move other
\* than the sentinel, writes O to exactly one cell, which was empty, and
\* appends the move to computerMoves; so the turn never passes back to the
\* human with the board unchanged.
C29_ComputerTurnPlacesOneO ==
    [][(chosenMode = "2" /\ currentPlayer = COMPUTER
          /\ pc \in {"turn", "mctsMove"} /\ pc' \in {"turn", "gameOver"})
        => /\ checkWinner(board) = EMPTY
           /\ bestMove' # NoMove
           /\ \E k \in Cells :
                 /\ board[k] = EMPTY
                 /\ bestMove' = MoveOf(k)
                 /\ board' = [board EXCEPT ![k] = COMPUTER]
                 /\ computerMoves' = computerMoves \o <<MoveOf(k)>>
           /\ playerMoves' = playerMoves
           /\ currentPlayer' = PLAYER => board' # board]_vars

\* TicTacToe.cpp at the Easy difficulty: the turn is back with the human
\* after the second move of mctsMove
C29_Witness ==
    /\ pc = "turn"
    /\ program = "TicTacToe"
    /\ chosenMode = "2"
    /\ aiChoice = "E"
    /\ currentPlayer = PLAYER
    /\ Len(playerMoves) = 2
    /\ Len(computerMoves) = 2
    /\ CountOf(board, COMPUTER) = 2
    /\ bestMove = computerMoves[2]

\* the number of marks of X minus the number of marks of O on the board
MarkLead == CountOf(board, PLAYER) - CountOf(board, COMPUTER)

\* C30: in both game modes, at every point of a game X has as many marks as
\* O or one more; it is the turn of X exactly when the counts are equal (so
\* X moves first) and of O exactly when X leads by one; within a game every
\* change of the board writes the mark of the side whose turn it is to one
\* empty cell and leaves every other cell as it was, the turn then passes
\* to the other side unless the game is over, and the turn never passes
\* while the board stays as it is.
C30_TurnsAlternate ==
    /\ [](pc \in {"turn", "mctsMove", "gameOver"}
            => /\ MarkLead \in {0, 1}
               /\ pc \in {"turn", "mctsMove"}
                     => /\ currentPlayer = PLAYER <=> MarkLead = 0
                        /\ currentPlayer = COMPUTER <=> MarkLead = 1)
    /\ [][pc # "newGame"
            => /\ board' # board
                     => /\ pc \in {"turn", "mctsMove"}
                        /\ \E k \in Cells :
                              /\ board[k] = EMPTY
                              /\ board' = [board EXCEPT ![k] = currentPlayer]
                        /\ \/ pc' = "gameOver" /\ currentPlayer' = currentPlayer
                           \/ /\ pc' = "turn"
                              /\ currentPlayer' # currentPlayer
                              /\ currentPlayer' \in {PLAYER, COMPUTER}
               /\ board' = board => currentPlayer' = currentPlayer]_vars

\* a game of two humans after three moves of X and two of O: O is to move
C30_Witness ==
    /\ pc = "turn"
    /\ chosenMode = "1"
    /\ currentPlayer = COMPUTER
    /\ Len(playerMoves) = 3
    /\ Len(computerMoves) = 2
    /\ CountOf(board, PLAYER) = 3
    /\ CountOf(board, COMPUTER) = 2
    /\ checkWinner(board) = EMPTY

\* C31: at every point of a game at most 9 marks have been placed (the
\* marks on the board are the moves of the two histories); a turn is only
\* taken while checkWinner(board) is ' ' and the winner variable is ' ';
\* and when the game loop has exited the winner variable is the result of
\* checkWinner on the final board and is one of 'X', 'O', 'D', never ' '.
C31_GameEndsWithResult ==
    /\ [](pc \in {"turn", "mctsMove", "gameOver"}
            => /\ Len(playerMoves) + Len(computerMoves) = Occupied(board)
               /\ Occupied(board) <= 9
               /\ pc \in {"turn", "mctsMove"}
                     => /\ checkWinner(board) = EMPTY
                        /\ winner = EMPTY
                        /\ countFreeSpaces(board) > 0
               /\ pc = "gameOver"
                     => /\ winner \in {PLAYER, COMPUTER, DRAW}
                        /\ winner = checkWinner(board))
    /\ [][(pc # "newGame" /\ board' # board)
            => /\ checkWinner(board) = EMPTY
               /\ Occupied(board') = Occupied(board) + 1]_vars

\* part_001 against the random opponent: X has won with its third mark
\* while four cells are still free
C31_Witness ==
    /\ pc = "gameOver"
    /\ program = "part_001"
    /\ chosenMode = "2"
    /\ aiChoice = "R"
    /\ winner = PLAYER
    /\ Len(playerMoves) = 3
    /\ Len(computerMoves) = 2
    /\ countFreeSpaces(board) = 4

\* C32: the step that starts a game, the first game of a mode and every
\* replay alike, leaves every cell of the board empty, both histories
\* empty, the winner variable ' ' and X to move, and keeps the mode and the
\* difficulty; the answer to the replay question changes neither of them;
\* no search tree exists outside a call of mctsMove, and the tree of every
\* call starts as a root without visits and children on the board of that
\* turn.
C32_NewGameStartsClean ==
    /\ [](pc # "mctsMove" => tree = <<>> /\ lastNode = NULL)
    /\ [][/\ pc = "newGame"
             => /\ pc' = "turn"
                /\ \A k \in Cells : board'[k] = EMPTY
                /\ playerMoves' = <<>>
                /\ computerMoves' = <<>>
                /\ winner' = EMPTY
                /\ currentPlayer' = PLAYER
                /\ chosenMode' = chosenMode
                /\ aiChoice' = aiChoice
          /\ pc = "gameOver"
             => /\ chosenMode' = chosenMode
                /\ aiChoice' = aiChoice
                /\ pc' \in {"newGame", "modeMenu"}
          /\ (pc = "turn" /\ pc' = "mctsMove")
             => /\ Len(tree') = 1
                /\ tree'[1].boardState = board
                /\ tree'[1].N = 0
                /\ tree'[1].W = 0
                /\ tree'[1].children = <<>>]_vars

\* a game against the Easy difficulty of TicTacToe.cpp has just started
\* after a game in which mctsMove was called: the board and the histories
\* are empty and X is to move
C32_Witness ==
    /\ pc = "turn"
    /\ program = "TicTacToe"
    /\ chosenMode = "2"
    /\ aiChoice = "E"
    /\ iterations = EasyIterations
    /\ board = EmptyBoard
    /\ playerMoves = <<>>
    /\ computerMoves = <<>>
    /\ currentPlayer = PLAYER
    /\ winner = EMPTY
    /\ tree = <<>>

\* where a followed call of minimax, a rollout and a run of runMCTS are
MinimaxPcs == {"minimaxEntry", "minimaxLoop", "terminalReturn", "cutoffReturn", "loopReturn"}
RolloutPcs == {"simulateLoop", "simulateReturned"}
ReturnedPcs == {"terminalReturn", "cutoffReturn", "loopReturn", "simulateReturned", "runMCTSReturned"}

\* C33: every search comes to its return.  The outermost call of minimax
\* has depth 0, and every step of a call keeps depth + (free cells of its
\* board) as it is, a recursive call being one deeper on a board with one
\* free cell less: the depth never exceeds the number of free cells of the
\* board of the outermost call.  A rollout places one mark per step and
\* at most as many marks as its board has free cells, at most 9.  The node
\* the selection phase of an iteration ends at is not NULL and its depth,
\* like that of every node of the tree, is the number of marks its board
\* has more than the root's, at most 9.  Every iteration of runMCTS adds 1
\* to the loop counter and one visit to the root, and runMCTS returns with
\* the counter equal to `iterations`.
C33_SearchesTerminate ==
    /\ (pc = "minimaxEntry" => curDepth = 0)
    /\ [](/\ pc # "undefined"
          /\ pc \in MinimaxPcs
                => /\ curDepth >= 0
                   /\ curDepth + countFreeSpaces(board) <= 9
          /\ pc \in RolloutPcs
                => /\ Cardinality(Placed) <= countFreeSpaces(tree[lastNode].boardState)
                   /\ Cardinality(Placed) <= 9
                   /\ Cardinality(Placed) = Occupied(tempBoard)
                                             - Occupied(tree[lastNode].boardState)
          /\ pc = "runMCTS"
                => /\ iter <= iterations
                   /\ tree[1].N = iter
                   /\ \A n \in Nodes :
                         /\ DepthOf(n) = Occupied(tree[n].boardState)
                                          - Occupied(tree[1].boardState)
                         /\ DepthOf(n) <= 9
                   /\ iter < iterations
                         => /\ Selection(program, tree, 1) # NULL
                            /\ DepthOf(Selection(program, tree, 1))
                                  <= countFreeSpaces(tree[1].boardState)
          /\ pc = "runMCTSReturned" => iter = iterations)
    /\ [][/\ pc \in MinimaxPcs
             => /\ curDepth' + countFreeSpaces(board') = curDepth + countFreeSpaces(board)
                /\ curDepth' \in {curDepth, curDepth + 1}
          /\ (pc = "simulateLoop" /\ pc' = "simulateLoop")
             => Cardinality(Placed') = Cardinality(Placed) + 1
          /\ (pc = "runMCTS" /\ pc' = "runMCTS")
             => /\ iter' = iter + 1
                /\ iterations' = iterations]_vars
    /\ <>(pc \in ReturnedPcs)

\* a recursive call of minimax on a full board without a line, as deep as
\* the board of the outermost call had free cells
C33_Witness ==
    /\ pc = "terminalReturn"
    /\ curDepth = MaxCallFree - 1
    /\ countFreeSpaces(board) = 0
    /\ checkWinner(board) = DRAW
    /\ bestScore = 0

\* the place of child c in the children of node n, in creation order
PlaceOf(n, c) == CHOOSE i \in 1..Len(tree[n].children) : tree[n].children[i] = c

\* C34: between the iterations of runMCTS, at every node with at least one
\* child selectChild returns one of the children, not NULL; and at every
\* node the selection loop applies it to (no untried move, Ongoing board)
\* whose children all have N >= 1 every child's UCT value is at least 0,
\* the child returned has a value no smaller than any child's and a greater
\* value than every child created before it, and among children with the
\* same N it has the most wins.  The iteration that follows descends into
\* the child selectChild returns at the root.
C34_SelectsFirstMaximalChild ==
    /\ [](pc = "runMCTS"
            => \A n \in Nodes :
                  tree[n].children # <<>>
                  => /\ tree[n].N >= 1
                     /\ selectChild(tree, n) \in Kids(n)
                     /\ (/\ SelectionGoesOn(program, tree, n)
                         /\ \A k \in Kids(n) : tree[k].N >= 1)
                        => LET c == selectChild(tree, n)
                               uct(k) == calculateUCT(tree[k], tree[n].N)
                           IN \A k \in Kids(n) :
                                 /\ uct(k) >= 0
                                 /\ uct(k) <= uct(c)
                                 /\ PlaceOf(n, k) < PlaceOf(n, c) => uct(k) < uct(c)
                                 /\ tree[k].N = tree[c].N
                                       => /\ tree[k].W <= tree[c].W
                                          /\ PlaceOf(n, k) < PlaceOf(n, c)
                                                => tree[k].W < tree[c].W)
    /\ [][(/\ pc = "runMCTS"
           /\ pc' = "runMCTS"
           /\ SelectionGoesOn(program, tree, 1)
           /\ tree[1].children # <<>>)
          => selectChild(tree, 1) \in Ancestors(tree', lastNode')]_vars

\* the selection loop is about to choose among two root children with equal
\* UCT values, both visited, and selectChild returns the one created first
C34_Witness ==
    /\ pc = "runMCTS"
    /\ iter < iterations
    /\ SelectionGoesOn(program, tree, 1)
    /\ Len(tree[1].children) = 2
    /\ \A k \in Kids(1) : tree[k].N >= 1
    /\ calculateUCT(tree[tree[1].children[1]], tree[1].N)
          = calculateUCT(tree[tree[1].children[2]], tree[1].N)
    /\ checkWinner(tree[tree[1].children[1]].boardState) = EMPTY
    /\ selectChild(tree, 1) = tree[1].children[1]

=============================================================================
